---- MODULE Spec2Model ----
(***************************************************************************)
(* Order fulfilment of the e-commerce schema: the PL/pgSQL function        *)
(* process_order (sql/stored-procedures.sql) run by concurrent database    *)
(* sessions against the tables of sql/schema.sql.                          *)
(*                                                                         *)
(* A call of process_order is one transaction.  Under PostgreSQL's default *)
(* isolation level (READ COMMITTED) every SQL statement of the function    *)
(* body reads the rows committed at the moment the statement starts, plus  *)
(* the transaction's own writes; an UPDATE waits for the row lock and then *)
(* works on the latest committed version of the row; an error anywhere     *)
(* rolls the whole transaction back.  One action of the model is one       *)
(* statement (or a run of statements that touch no shared row).            *)
(*                                                                         *)
(* Money: table columns are DECIMAL(10,2) and are held in cents.  The      *)
(* PL/pgSQL variables are unconstrained DECIMAL, so they are exact:        *)
(* v_discount_amount is held in 1/10^4 dollar (E4), v_tax_amount and       *)
(* v_total_amount in 1/10^6 dollar (E6).  Coupons of the model carry       *)
(* whole-number values (10 for 10.00), for which these units are exact.    *)
(***************************************************************************)
EXTENDS Integers, Sequences, FiniteSets, TLC

\* ------------------------------------------------------------------ bounds
MaxLines  == 2   \* lines of one request
MaxOrders == 2   \* calls of process_order in one behaviour
MaxSecond == 1   \* the clock runs over the seconds 0..MaxSecond

\* ---------------------------------------------------------------- catalog
NULL == "NULL"
Unassigned == "UNASSIGNED"

Sessions   == {"s1", "s2"}
ProductIds == {"p1", "p2"}
VariantIds == {"v1", "v2"}

\* v_shipping_amount DECIMAL := 10.00
ShippingFlat == 1000
\* (v_subtotal - v_discount_amount) * 0.08
TaxPercent == 8

\* The products table: p1 is on sale, p2 is not active.
InitProducts ==
  [i \in ProductIds |->
     IF i = "p1" THEN [price |-> 335, inventory_quantity |-> 5, is_active |-> TRUE]
                 ELSE [price |-> 700, inventory_quantity |-> 4, is_active |-> FALSE]]

\* The product_variants table: v1 is a variant of p1, v2 one that is not active.
InitVariants ==
  [i \in VariantIds |->
     IF i = "v1"
       THEN [product_id |-> "p1", price |-> 400, inventory_quantity |-> 6, is_active |-> TRUE]
       ELSE [product_id |-> "p1", price |-> 900, inventory_quantity |-> 4, is_active |-> FALSE]]

\* The coupons table, keyed by code (UNIQUE).  A nullable column is a set
\* with at most one element ({} is NULL).
CouponCodes == {"SAVE10", "FLAT5", "SHIPFREE", "OFF", "EARLY", "EXPIRING"}

CouponRow(type, value, minimum, limit, active, starts, expires) ==
  [type |-> type, value |-> value, minimum_amount |-> minimum,
   usage_limit |-> limit, usage_count |-> 0, is_active |-> active,
   starts_at |-> starts, expires_at |-> expires]

InitCoupons ==
  [c \in CouponCodes |->
     CASE c = "SAVE10"   -> CouponRow("percentage", 10, 1000, {1}, TRUE, {}, {})
       [] c = "FLAT5"    -> CouponRow("fixed_amount", 5, 0, {}, TRUE, {}, {})
       [] c = "SHIPFREE" -> CouponRow("free_shipping", 0, 1000, {}, TRUE, {}, {})
       [] c = "OFF"      -> CouponRow("fixed_amount", 5, 0, {}, FALSE, {}, {})
       [] c = "EARLY"    -> CouponRow("free_shipping", 0, 0, {}, TRUE, {1}, {})
       [] OTHER          -> CouponRow("percentage", 10, 0, {}, TRUE, {}, {0})]

\* ------------------------------------------------------------------- state
VARIABLES
  products,                \* products: id -> row
  product_variants,        \* product_variants: id -> row
  coupons,                 \* coupons: code -> row
  orders,                  \* orders: set of rows
  order_items,             \* order_items: set of rows
  inventory_transactions,  \* the ledger, in the order the rows were committed
  coupon_usages,           \* coupon_usages: set of rows
  cart_items,              \* session's user -> whether the user has cart rows
  now,                     \* the clock, in seconds
  calls,                   \* calls of process_order made so far
  pc,                      \* session -> where its call stands
  req,                     \* session -> the arguments of its call
  loc,                     \* session -> the PL/pgSQL variables of its call
  tx,                      \* session -> the uncommitted writes of its transaction
  result                   \* session -> what its last call returned

\* The state of the MongoDB application (models Product and Order, services
\* OrderService and ProductService).
VARIABLES
  mproducts,               \* Product documents: id -> inventory sub-document
  morders,                 \* Order documents, in the order they were saved
  mcall,                   \* client -> the service call it is running
  mcalls                   \* service calls made so far

mongo == <<mproducts, morders, mcall, mcalls>>

\* The reporting functions of sql/stored-procedures.sql read the tables at
\* a date and return rows.
VARIABLES
  reviews,                 \* reviews: set of rows
  today,                   \* CURRENT_DATE: [day, month]
  report                   \* the reporting call: position, variables, result

reporting == <<reviews, today, report>>

\* The state process_order does not touch.
aux == <<mongo, reporting>>

sql == <<products, product_variants, coupons, orders, order_items,
         inventory_transactions, coupon_usages, cart_items, now, calls,
         pc, req, loc, tx, result>>

vars == <<sql, aux>>

db == <<products, product_variants, coupons, orders, order_items,
        inventory_transactions, coupon_usages, cart_items>>

\* ----------------------------------------------------------------- helpers
Min(a, b) == IF a <= b THEN a ELSE b

\* num/den rounded to an integer, halves away from zero: how PostgreSQL
\* rounds a numeric that is stored into a DECIMAL(10,2) column.
Round(num, den) ==
  LET q == num \div den
      r == num - q * den
  IN  IF num >= 0 THEN (IF 2 * r >= den THEN q + 1 ELSE q)
                  ELSE (IF 2 * r > den THEN q + 1 ELSE q)

RECURSIVE SumSeq(_)
SumSeq(s) == IF s = <<>> THEN 0 ELSE Head(s) + SumSeq(Tail(s))

NoRow == [id |-> NULL, price |-> 0, inventory_quantity |-> 0]

NoCall == [p_items |-> <<>>, p_coupon_code |-> NULL]

NoLocals ==
  [idx |-> 0, ts |-> 0, v_order_id |-> 0, v_subtotal |-> 0,
   v_insufficient_stock |-> <<>>, v_coupon |-> Unassigned,
   v_discount_amount |-> 0, v_shipping_amount |-> ShippingFlat,
   v_tax_amount |-> 0, v_total_amount |-> 0,
   v_product |-> NoRow, v_variant |-> NoRow]

NoWrites == [stock |-> <<>>, order |-> {}, items |-> {}, ledger |-> <<>>]

NoResult == [status |-> "none", message |-> "", names |-> <<>>,
             order_id |-> 0, total_amount |-> 0]

\* Stock kept on the product's row for every line.
RowOf_Product(item) == item.product_id

\* The inventory row a request line is about: the variant's when the line
\* names one, else the product's.
RowOf(item) == IF item.variant_id /= NULL THEN item.variant_id ELSE item.product_id

\* tx[p].stock is a sequence of <<row, quantity>> pairs, the latest last.
RowsWritten(p) == {tx[p].stock[k][1] : k \in DOMAIN tx[p].stock}

LockedByOther(p, row) == \E q \in Sessions \ {p} : row \in RowsWritten(q)

CommittedStock(row) ==
  IF row \in ProductIds THEN products[row].inventory_quantity
                        ELSE product_variants[row].inventory_quantity

\* What a statement of session p reads as the stock of a row: its own
\* uncommitted write if it made one, else the committed value.
StockSeen(p, row) ==
  LET ks == {k \in DOMAIN tx[p].stock : tx[p].stock[k][1] = row}
  IN  IF ks = {} THEN CommittedStock(row)
      ELSE tx[p].stock[CHOOSE k \in ks : \A j \in ks : j <= k][2]

\* ------------------------------------------------------------ Mongo state
MaxCalls == 4   \* service calls of the Mongo application in one behaviour

MClients == {"c1", "c2"}

MProductIds == {"m1", "m2"}

\* Products as createProduct saves them: nothing reserved, available computed
\* by the pre-save hook.
InitMProducts ==
  [i \in MProductIds |->
     IF i = "m1" THEN [quantity |-> 5, reserved |-> 0, available |-> 5]
                 ELSE [quantity |-> 4, reserved |-> 0, available |-> 4]]

NoDoc == [quantity |-> 0, reserved |-> 0, available |-> 0]

\* What a client remembers of the call it made last: the operation, the
\* order it created and the products as they were when the call began.
NoLast == [op |-> "none", orderId |-> 0, before |-> InitMProducts]

\* A client that runs no call.  loaded is the document as findById returned
\* it, doc the same document with the call's edits.
NoMCall ==
  [op |-> "none", pc |-> "idle", items |-> <<>>, orderId |-> 0,
   productId |-> "", quantity |-> 0, idx |-> 0, loaded |-> NoDoc, doc |-> NoDoc,
   before |-> InitMProducts, outcome |-> "none", last |-> NoLast]

MongoInit ==
  /\ mproducts = InitMProducts
  /\ morders = <<>>
  /\ mcall = [c \in MClients |-> NoMCall]
  /\ mcalls = 0

\* -------------------------------------------------------- reporting state
\* A JSONB value is an object (keys to strings) or a scalar string.
JsonObject(obj) == [kind |-> "object", obj |-> obj, str |-> ""]

JsonString(str) == [kind |-> "string", obj |-> <<>>, str |-> str]

\* A rational number num / den, den > 0: NUMERIC values are exact.
One == <<1, 1>>

NoReport ==
  [fn |-> "none", pc |-> "idle", p_product_id |-> NULL, p_user_id |-> NULL,
   p_limit |-> 0, variable_conflict |-> "error",
   v_inventory_factor |-> One, v_demand_factor |-> One,
   v_factors |-> JsonObject(<<>>),
   status |-> "none", error |-> "", rows |-> <<>>]

ReportingInit ==
  /\ reviews = {}
  /\ today = [day |-> 0, month |-> 1]
  /\ report = NoReport

\* ---------------------------------------------------------------- initial
Init ==
  /\ MongoInit
  /\ ReportingInit
  /\ products = InitProducts
  /\ product_variants = InitVariants
  /\ coupons = InitCoupons
  /\ orders = {}
  /\ order_items = {}
  /\ inventory_transactions = <<>>
  /\ coupon_usages = {}
  /\ cart_items = [s \in Sessions |-> TRUE]
  /\ now = 0
  /\ calls = 0
  /\ pc = [s \in Sessions |-> "idle"]
  /\ req = [s \in Sessions |-> NoCall]
  /\ loc = [s \in Sessions |-> NoLocals]
  /\ tx = [s \in Sessions |-> NoWrites]
  /\ result = [s \in Sessions |-> NoResult]

\* ------------------------------------------------------- coupon evaluation
\* The lookup without its expires_at condition.
CouponUsable_NoExpiry(c, t) ==
  /\ c.is_active
  /\ \A s \in c.starts_at : s <= t
  /\ \A l \in c.usage_limit : c.usage_count < l

\* The WHERE clause of the coupon lookup: the row c is usable at time t.
CouponUsable(c, t) ==
  /\ c.is_active
  /\ \A s \in c.starts_at : s <= t
  /\ \A e \in c.expires_at : e >= t
  /\ \A l \in c.usage_limit : c.usage_count < l

\* SELECT * INTO v_coupon FROM coupons WHERE code = p_coupon_code AND ...:
\* the code of the row found, NULL when no row matches.
SelectCoupon(code, t) ==
  IF code \in DOMAIN coupons /\ CouponUsable(coupons[code], t) THEN code ELSE NULL

\* IF v_coupon.minimum_amount <= v_subtotal
MinimumMet(c, subtotal) == c.minimum_amount <= subtotal

\* The discount with the fixed amount not capped at the subtotal.
DiscountOf_Uncapped(c, subtotal) ==
  CASE c.type = "percentage"   -> subtotal * c.value
    [] c.type = "fixed_amount" -> c.value * 100 * 100
    [] OTHER                   -> 0

\* The CASE on v_coupon.type: v_discount_amount (E4) for a subtotal in cents.
DiscountOf(c, subtotal) ==
  CASE c.type = "percentage"   -> subtotal * c.value
    [] c.type = "fixed_amount" -> Min(c.value * 100, subtotal) * 100
    [] OTHER                   -> 0

\* The CASE on v_coupon.type: v_shipping_amount (cents).
ShippingOf(c) == IF c.type = "free_shipping" THEN 0 ELSE ShippingFlat

\* v_tax_amount (E6) := (v_subtotal - v_discount_amount) * 0.08
TaxOf(subtotal, discount) == (subtotal * 100 - discount) * TaxPercent

\* v_total_amount (E6) := v_subtotal + v_tax_amount + v_shipping_amount - v_discount_amount
TotalOf(subtotal, tax, shipping, discount) ==
  subtotal * 10000 + tax + shipping * 10000 - discount * 100

\* 'ORD-' || YYYYMMDD || '-' || LPAD(epoch::TEXT, 10, '0'): LPAD cuts the
\* epoch's text to its first 10 characters, the whole seconds, so the number
\* is a function of the second in which the transaction started.
OrderNumber(t) == <<"ORD", t>>

\* The stock columns without their CHECK constraint.
StockCheck_None(q) == TRUE

\* CHECK (inventory_quantity >= 0) of products and product_variants.
StockCheck(q) == q >= 0

\* ------------------------------------------------------ ends of a call
\* RETURN QUERY SELECT FALSE, NULL, 0, message; RETURN: the function ends,
\* its transaction wrote nothing.
ReturnFailure(p, message, names) ==
  /\ pc' = [pc EXCEPT ![p] = "done"]
  /\ result' = [result EXCEPT ![p] = [status |-> "failed", message |-> message,
                                      names |-> names, order_id |-> 0,
                                      total_amount |-> 0]]
  /\ loc' = [loc EXCEPT ![p] = NoLocals]
  /\ tx' = [tx EXCEPT ![p] = NoWrites]
  /\ UNCHANGED <<aux, db, now, calls, req>>

\* An error raised inside the function: the transaction is rolled back, its
\* uncommitted writes are dropped and its row locks released.
RaiseError(p, message) ==
  /\ pc' = [pc EXCEPT ![p] = "done"]
  /\ result' = [result EXCEPT ![p] = [status |-> "error", message |-> message,
                                      names |-> <<>>, order_id |-> 0,
                                      total_amount |-> 0]]
  /\ loc' = [loc EXCEPT ![p] = NoLocals]
  /\ tx' = [tx EXCEPT ![p] = NoWrites]
  /\ UNCHANGED <<aux, db, now, calls, req>>

\* ----------------------------------------------------------- process_order
\* The p_items arrays of at most MaxLines lines over a set of lines.
ItemLists(lines) == UNION {[1..n -> lines] : n \in 1..MaxLines}

\* The call starts: CURRENT_TIMESTAMP is the start of the transaction, the
\* order id is a fresh uuid.
Begin(p, items, code, t) ==
  /\ pc[p] \in {"idle", "done"}
  /\ calls < MaxOrders
  /\ t >= now
  /\ now' = t
  /\ calls' = calls + 1
  /\ req' = [req EXCEPT ![p] = [p_items |-> items, p_coupon_code |-> code]]
  /\ loc' = [loc EXCEPT ![p] = [NoLocals EXCEPT !.idx = 1, !.ts = t,
                                               !.v_order_id = calls + 1]]
  /\ tx' = [tx EXCEPT ![p] = NoWrites]
  /\ result' = [result EXCEPT ![p] = NoResult]
  /\ pc' = [pc EXCEPT ![p] = "validate"]
  /\ UNCHANGED <<aux, db>>

\* One pass of the first loop: look the product (and variant) up, note a
\* shortfall, add the line to the subtotal.
ValidateItem(p) ==
  /\ pc[p] = "validate"
  /\ LET l    == loc[p]
         item == req[p].p_items[l.idx]
         prod == products[item.product_id]
         hasV == item.variant_id /= NULL
         vFound == /\ hasV
                   /\ product_variants[item.variant_id].product_id = item.product_id
                   /\ product_variants[item.variant_id].is_active
         price == IF hasV THEN product_variants[item.variant_id].price ELSE prod.price
         stock == IF hasV THEN product_variants[item.variant_id].inventory_quantity
                          ELSE prod.inventory_quantity
         short == IF stock < item.quantity
                    THEN Append(l.v_insufficient_stock, RowOf(item))
                    ELSE l.v_insufficient_stock
         last == l.idx = Len(req[p].p_items)
     IN  IF ~prod.is_active
           THEN ReturnFailure(p, "Product not found", <<item.product_id>>)
         ELSE IF hasV /\ ~vFound
           THEN ReturnFailure(p, "Product variant not found", <<item.variant_id>>)
         ELSE /\ loc' = [loc EXCEPT ![p].v_insufficient_stock = short,
                                    ![p].v_subtotal = l.v_subtotal + price * item.quantity,
                                    ![p].idx = IF last THEN 1 ELSE l.idx + 1]
              /\ pc' = [pc EXCEPT ![p] = IF last THEN "coupon" ELSE "validate"]
              /\ UNCHANGED <<aux, db, now, calls, req, tx, result>>

\* The coupon block counting the usage of the coupon at the lookup.
ApplyCoupon_CountsUsage(p) ==
  /\ pc[p] = "coupon"
  /\ LET l     == loc[p]
         code  == req[p].p_coupon_code
         found == IF code = NULL THEN Unassigned ELSE SelectCoupon(code, l.ts)
         applies == /\ found \notin {Unassigned, NULL}
                    /\ MinimumMet(coupons[found], l.v_subtotal)
         disc  == IF applies THEN DiscountOf(coupons[found], l.v_subtotal) ELSE 0
         ship  == IF applies THEN ShippingOf(coupons[found]) ELSE ShippingFlat
         tax   == TaxOf(l.v_subtotal, disc)
     IN  IF Len(l.v_insufficient_stock) > 0
           THEN ReturnFailure(p, "Insufficient stock for", l.v_insufficient_stock)
           ELSE /\ loc' = [loc EXCEPT ![p].v_coupon = found,
                                      ![p].v_discount_amount = disc,
                                      ![p].v_shipping_amount = ship,
                                      ![p].v_tax_amount = tax,
                                      ![p].v_total_amount =
                                          TotalOf(l.v_subtotal, tax, ship, disc)]
                /\ coupons' = IF found \in {Unassigned, NULL} THEN coupons
                              ELSE [coupons EXCEPT ![found].usage_count = @ + 1]
                /\ pc' = [pc EXCEPT ![p] = "insert_order"]
                /\ UNCHANGED <<aux, products, product_variants, orders, order_items,
                               inventory_transactions, coupon_usages, cart_items,
                               now, calls, req, tx, result>>

\* After the loop: fail on any shortfall, else look the coupon up and
\* compute discount, tax and total.
ApplyCoupon(p) ==
  /\ pc[p] = "coupon"
  /\ LET l     == loc[p]
         code  == req[p].p_coupon_code
         found == IF code = NULL THEN Unassigned ELSE SelectCoupon(code, l.ts)
         applies == /\ found \notin {Unassigned, NULL}
                    /\ MinimumMet(coupons[found], l.v_subtotal)
         disc  == IF applies THEN DiscountOf(coupons[found], l.v_subtotal) ELSE 0
         ship  == IF applies THEN ShippingOf(coupons[found]) ELSE ShippingFlat
         tax   == TaxOf(l.v_subtotal, disc)
     IN  IF Len(l.v_insufficient_stock) > 0
           THEN ReturnFailure(p, "Insufficient stock for", l.v_insufficient_stock)
           ELSE /\ loc' = [loc EXCEPT ![p].v_coupon = found,
                                      ![p].v_discount_amount = disc,
                                      ![p].v_shipping_amount = ship,
                                      ![p].v_tax_amount = tax,
                                      ![p].v_total_amount =
                                          TotalOf(l.v_subtotal, tax, ship, disc)]
                /\ pc' = [pc EXCEPT ![p] = "insert_order"]
                /\ UNCHANGED <<aux, db, now, calls, req, tx, result>>

\* The orders row as the DECIMAL(10,2) columns store it.
OrderRow(p) ==
  [id |-> loc[p].v_order_id, order_number |-> OrderNumber(loc[p].ts), user_id |-> p,
   subtotal |-> loc[p].v_subtotal,
   tax_amount |-> Round(loc[p].v_tax_amount, 10000),
   shipping_amount |-> loc[p].v_shipping_amount,
   discount_amount |-> Round(loc[p].v_discount_amount, 100),
   total_amount |-> Round(loc[p].v_total_amount, 10000)]

\* Another transaction has inserted, and not yet committed, an order of the
\* same number: the INSERT waits for it to end.
NumberHeldByOther(p) ==
  \E q \in Sessions \ {p} : \E o \in tx[q].order :
     o.order_number = OrderNumber(loc[p].ts)

\* INSERT INTO orders: order_number is UNIQUE.
InsertOrder(p) ==
  /\ pc[p] = "insert_order"
  /\ ~NumberHeldByOther(p)
  /\ IF \E o \in orders : o.order_number = OrderNumber(loc[p].ts)
       THEN RaiseError(p, "unique_violation")
       ELSE /\ tx' = [tx EXCEPT ![p].order = {OrderRow(p)}]
            /\ pc' = [pc EXCEPT ![p] = "select_item"]
            /\ UNCHANGED <<aux, db, now, calls, req, loc, result>>

\* Second loop, SELECT * INTO v_product (and v_variant): no is_active filter.
SelectItem(p) ==
  /\ pc[p] = "select_item"
  /\ LET item == req[p].p_items[loc[p].idx]
         prow == [id |-> item.product_id, price |-> products[item.product_id].price,
                  inventory_quantity |-> StockSeen(p, item.product_id)]
         vrow == IF item.variant_id = NULL THEN loc[p].v_variant
                 ELSE [id |-> item.variant_id,
                       price |-> product_variants[item.variant_id].price,
                       inventory_quantity |-> StockSeen(p, item.variant_id)]
     IN  loc' = [loc EXCEPT ![p].v_product = prow, ![p].v_variant = vrow]
  /\ pc' = [pc EXCEPT ![p] = "update_item"]
  /\ UNCHANGED <<aux, db, now, calls, req, tx, result>>

\* The line the second loop is at, and the row its SELECT read for it.
CurrentItem(p) == req[p].p_items[loc[p].idx]

RowRead(p) == IF CurrentItem(p).variant_id /= NULL THEN loc[p].v_variant
                                                   ELSE loc[p].v_product

\* INSERT INTO order_items: the snapshot of the line at the price read.
ItemRow(p) ==
  [order_id |-> loc[p].v_order_id, line |-> loc[p].idx,
   product_id |-> CurrentItem(p).product_id, variant_id |-> CurrentItem(p).variant_id,
   quantity |-> CurrentItem(p).quantity, unit_price |-> RowRead(p).price,
   total_price |-> RowRead(p).price * CurrentItem(p).quantity]

\* UPDATE ... SET inventory_quantity = inventory_quantity - quantity: the
\* statement works on the latest version of the row, under its row lock.
NewStock(p) == StockSeen(p, RowOf(CurrentItem(p))) - CurrentItem(p).quantity

\* INSERT INTO inventory_transactions: quantity_after is computed from the
\* record the SELECT at the top of the pass read, not from the updated row.
LedgerRow(p) ==
  [product_id |-> CurrentItem(p).product_id, variant_id |-> CurrentItem(p).variant_id,
   type |-> "sale", quantity_change |-> 0 - CurrentItem(p).quantity,
   quantity_after |-> RowRead(p).inventory_quantity - CurrentItem(p).quantity,
   reference_id |-> loc[p].v_order_id]

\* The writes of a line with the ledger INSERT left out of the variant branch.
LineWrites_NoVariantLedger(p) ==
  [tx[p] EXCEPT !.items = @ \cup {ItemRow(p)},
                !.stock = Append(@, <<RowOf(CurrentItem(p)), NewStock(p)>>),
                !.ledger = IF CurrentItem(p).variant_id /= NULL THEN @
                           ELSE Append(@, LedgerRow(p))]

\* The uncommitted writes of the transaction after the three writes of a line.
LineWrites(p) ==
  [tx[p] EXCEPT !.items = @ \cup {ItemRow(p)},
                !.stock = Append(@, <<RowOf(CurrentItem(p)), NewStock(p)>>),
                !.ledger = Append(@, LedgerRow(p))]

\* Second loop, the three writes of a line: the order_items row, the stock
\* UPDATE and the ledger row.  The UPDATE waits while another transaction
\* holds the row's lock and fails on the CHECK constraint.
UpdateItem(p) ==
  /\ pc[p] = "update_item"
  /\ ~LockedByOther(p, RowOf(CurrentItem(p)))
  /\ LET last == loc[p].idx = Len(req[p].p_items)
     IN  IF ~StockCheck(NewStock(p))
           THEN RaiseError(p, "check_violation")
           ELSE /\ tx' = [tx EXCEPT ![p] = LineWrites(p)]
                /\ loc' = [loc EXCEPT ![p].idx = IF last THEN 1 ELSE loc[p].idx + 1]
                /\ pc' = [pc EXCEPT ![p] = IF last THEN "finish" ELSE "select_item"]
                /\ UNCHANGED <<aux, db, now, calls, req, result>>

\* The row version a commit of p leaves in a stock table.
CommitStock(p, table) ==
  [i \in DOMAIN table |->
     IF i \in RowsWritten(p)
       THEN [table[i] EXCEPT !.inventory_quantity = StockSeen(p, i)]
       ELSE table[i]]

\* IF v_coupon.id IS NOT NULL: the coupon's usage, then the cart, then the
\* function returns and its transaction commits.  Reading a field of a
\* RECORD variable that was never assigned is an error in PL/pgSQL.
Finish(p) ==
  /\ pc[p] = "finish"
  /\ LET l == loc[p]
     IN  IF l.v_coupon = Unassigned
           THEN RaiseError(p, "record v_coupon is not assigned yet")
           ELSE /\ products' = CommitStock(p, products)
                /\ product_variants' = CommitStock(p, product_variants)
                /\ orders' = orders \cup tx[p].order
                /\ order_items' = order_items \cup tx[p].items
                /\ inventory_transactions' = inventory_transactions \o tx[p].ledger
                /\ coupons' = IF l.v_coupon = NULL THEN coupons
                              ELSE [coupons EXCEPT ![l.v_coupon].usage_count = @ + 1]
                /\ coupon_usages' =
                     IF l.v_coupon = NULL THEN coupon_usages
                     ELSE coupon_usages \cup
                            {[coupon_id |-> l.v_coupon, order_id |-> l.v_order_id,
                              user_id |-> p,
                              discount_amount |-> Round(l.v_discount_amount, 100)]}
                /\ cart_items' = [cart_items EXCEPT ![p] = FALSE]
                /\ pc' = [pc EXCEPT ![p] = "done"]
                /\ result' = [result EXCEPT ![p] =
                                [status |-> "ok", message |-> "Order processed successfully",
                                 names |-> <<>>, order_id |-> l.v_order_id,
                                 total_amount |-> l.v_total_amount]]
                /\ loc' = [loc EXCEPT ![p] = NoLocals]
                /\ tx' = [tx EXCEPT ![p] = NoWrites]
                /\ UNCHANGED <<aux, now, calls, req>>

\* Session p waits for a row lock that q holds.
WaitsFor(p, q) ==
  /\ pc[p] = "update_item"
  /\ RowOf(req[p].p_items[loc[p].idx]) \in RowsWritten(q)

\* Two transactions wait for each other's row lock: the deadlock detector
\* ends one of them with an error.
DeadlockAbort(p) ==
  /\ \E q \in Sessions \ {p} : WaitsFor(p, q) /\ WaitsFor(q, p)
  /\ RaiseError(p, "deadlock_detected")

\* One step of the body of session p's call.
Step(p) ==
  \/ ValidateItem(p)
  \/ ApplyCoupon(p)
  \/ InsertOrder(p)
  \/ SelectItem(p)
  \/ UpdateItem(p)
  \/ Finish(p)

\* --------------------------------------------------------- specification
\* Two sessions race for the stock of p1 and v1: every line asks for 3
\* units of any product, with or without a variant, and the call presents
\* no coupon or SAVE10.
RaceLines == [product_id : ProductIds, variant_id : VariantIds \cup {NULL},
              quantity : {3}]

RaceCodes == {NULL, "SAVE10"}

Next ==
  \E p \in Sessions :
     \/ \E items \in ItemLists(RaceLines), code \in RaceCodes, t \in 0..MaxSecond :
           Begin(p, items, code, t)
     \/ Step(p)
     \/ DeadlockAbort(p)

Spec == Init /\ [][Next]_vars

\* One session orders p1, one call after the other, presenting any coupon
\* code, while the catalog's price of p1 is edited by other transactions.
SerialLines == [product_id : {"p1"}, variant_id : {NULL}, quantity : {1, 3}]

SerialCodes == CouponCodes \cup {NULL, "NOSUCH"}

CatalogPrices == {335, 350}

\* Another transaction commits a new price of a product.
UpdatePrice(i, price) ==
  /\ products[i].price /= price
  /\ products' = [products EXCEPT ![i].price = price]
  /\ UNCHANGED <<aux, product_variants, coupons, orders, order_items,
                 inventory_transactions, coupon_usages, cart_items, now, calls,
                 pc, req, loc, tx, result>>

NextSerial ==
  \/ \E items \in ItemLists(SerialLines), code \in SerialCodes, t \in 0..MaxSecond :
        Begin("s1", items, code, t)
  \/ Step("s1")
  \/ \E price \in CatalogPrices : UpdatePrice("p1", price)

SpecSerial == Init /\ [][NextSerial]_vars

\* The coupon block of process_order on its own: a call that has validated
\* its one line of p1, of any price, presents the one coupon of the table,
\* of any type, value and minimum amount.
DiscountSubtotals == {335, 1005, 2000, 10000}

DiscountCoupons ==
  {CouponRow(type, value, minimum, {}, TRUE, {}, {}) :
     type \in {"percentage", "fixed_amount", "free_shipping"},
     value \in {10, 30, 150}, minimum \in {0, 5000}}

InitDiscount ==
  /\ MongoInit
  /\ ReportingInit
  /\ \E price \in DiscountSubtotals :
        /\ products = [InitProducts EXCEPT !["p1"].price = price]
        /\ loc = [s \in Sessions |->
                    IF s = "s1"
                      THEN [NoLocals EXCEPT !.idx = 1, !.v_order_id = 1,
                                            !.v_subtotal = price]
                      ELSE NoLocals]
  /\ coupons \in [{"C"} -> DiscountCoupons]
  /\ product_variants = InitVariants
  /\ orders = {}
  /\ order_items = {}
  /\ inventory_transactions = <<>>
  /\ coupon_usages = {}
  /\ cart_items = [s \in Sessions |-> TRUE]
  /\ now = 0
  /\ calls = 1
  /\ pc = [s \in Sessions |-> IF s = "s1" THEN "coupon" ELSE "idle"]
  /\ req = [s \in Sessions |->
              IF s = "s1"
                THEN [p_items |-> <<[product_id |-> "p1", variant_id |-> NULL,
                                    quantity |-> 1]>>,
                      p_coupon_code |-> "C"]
                ELSE NoCall]
  /\ tx = [s \in Sessions |-> NoWrites]
  /\ result = [s \in Sessions |-> NoResult]

NextDiscount == ApplyCoupon("s1")

SpecDiscount == InitDiscount /\ [][NextDiscount]_vars

\* The same call carried on to its commit.
NextDiscountOrder ==
  \/ ApplyCoupon("s1")
  \/ InsertOrder("s1")
  \/ SelectItem("s1")
  \/ UpdateItem("s1")
  \/ Finish("s1")

SpecDiscountOrder == InitDiscount /\ [][NextDiscountOrder]_vars

\* ------------------------------------------------- the Mongo application
\* Every await of the services is a point where another client's call can
\* run: findById reads the document as it is then, save() writes later.

\* Schema validation of a save: the min: 0 validators of the inventory paths
\* the call has modified.  Mongoose validates in a built-in pre-save hook
\* that runs before the schema's own pre('save') hook, so the available
\* value that hook computes is not validated.
Valid(loaded, doc) ==
  /\ doc.quantity /= loaded.quantity => doc.quantity >= 0
  /\ doc.reserved /= loaded.reserved => doc.reserved >= 0
  /\ doc.available /= loaded.available => doc.available >= 0

\* productSchema.pre('save'): available = quantity - reserved.
PreSave(doc) == [doc EXCEPT !.available = doc.quantity - doc.reserved]

\* reserveInventory: this.inventory.reserved += quantity
Reserve(doc, quantity) == [doc EXCEPT !.reserved = @ + quantity]

\* A cancellation that releases nothing.
Release_Nothing(doc, quantity) == doc

\* cancelOrder: product.inventory.reserved -= item.quantity
Release(doc, quantity) == [doc EXCEPT !.reserved = @ - quantity]

\* save() of a loaded document sends a $set of the paths the call modified;
\* every other path keeps the value the collection holds.
SaveProduct(i, loaded, doc) ==
  [mproducts EXCEPT ![i] =
     [f \in DOMAIN loaded |->
        IF PreSave(doc)[f] /= loaded[f] THEN PreSave(doc)[f] ELSE mproducts[i][f]]]

\* The call of client c ends: the promise resolves or rejects.
MEnd(c, outcome, orderId) ==
  [mcall EXCEPT ![c] =
     [NoMCall EXCEPT !.outcome = outcome,
                     !.last = [op |-> mcall[c].op, orderId |-> orderId,
                               before |-> mcall[c].before]]]

MIdle(c) == mcall[c].pc = "idle" /\ mcalls < MaxCalls

MongoLines ==
  [productId : MProductIds, quantity : {3}] \cup
  {[productId |-> "gone", quantity |-> 3]}

\* OrderService.createOrder(orderData) is called.
CreateOrder(c, items) ==
  /\ MIdle(c)
  /\ mcalls' = mcalls + 1
  /\ mcall' = [mcall EXCEPT ![c] =
                 [NoMCall EXCEPT !.op = "createOrder", !.pc = "find",
                                 !.items = items, !.idx = 1,
                                 !.before = mproducts, !.last = mcall[c].last]]
  /\ UNCHANGED <<sql, reporting, mproducts, morders>>

\* Product.findById, the availability check and reserveInventory up to its
\* save().
CreateFind(c) ==
  /\ mcall[c].op = "createOrder" /\ mcall[c].pc = "find"
  /\ LET item == mcall[c].items[mcall[c].idx]
     IN  IF item.productId \notin DOMAIN mproducts
           THEN mcall' = MEnd(c, "Product not found", 0)
           ELSE IF mproducts[item.productId].available < item.quantity
             THEN mcall' = MEnd(c, "Insufficient inventory", 0)
             ELSE mcall' = [mcall EXCEPT
                    ![c].pc = "save",
                    ![c].productId = item.productId,
                    ![c].loaded = mproducts[item.productId],
                    ![c].doc = Reserve(mproducts[item.productId],
                                       item.quantity)]
  /\ UNCHANGED <<sql, reporting, mproducts, morders, mcalls>>

\* The save() of reserveInventory completes; the loop goes on.
CreateSave(c) ==
  /\ mcall[c].op = "createOrder" /\ mcall[c].pc = "save"
  /\ IF Valid(mcall[c].loaded, mcall[c].doc)
       THEN /\ mproducts' = SaveProduct(mcall[c].productId, mcall[c].loaded,
                                        mcall[c].doc)
            /\ mcall' = [mcall EXCEPT
                 ![c].idx = @ + 1,
                 ![c].pc = IF mcall[c].idx = Len(mcall[c].items)
                             THEN "order" ELSE "find"]
       ELSE /\ mcall' = MEnd(c, "Validation failed", 0)
            /\ UNCHANGED mproducts
  /\ UNCHANGED <<sql, reporting, morders, mcalls>>

\* new Order(orderData).save(), for order data that passes the order
\* schema's validation.
CreateOrderSave(c) ==
  /\ mcall[c].op = "createOrder" /\ mcall[c].pc = "order"
  /\ morders' = Append(morders, [items |-> mcall[c].items, status |-> "pending"])
  /\ mcall' = MEnd(c, "ok", Len(morders) + 1)
  /\ UNCHANGED <<sql, reporting, mproducts, mcalls>>

\* OrderService.cancelOrder(orderId, reason) is called.
CancelOrder(c, orderId) ==
  /\ MIdle(c)
  /\ mcalls' = mcalls + 1
  /\ mcall' = [mcall EXCEPT ![c] =
                 [NoMCall EXCEPT !.op = "cancelOrder", !.pc = "find_order",
                                 !.orderId = orderId,
                                 !.before = mproducts, !.last = mcall[c].last]]
  /\ UNCHANGED <<sql, reporting, mproducts, morders>>

\* Order.findById(orderId).populate(...) and the two guards.
CancelFindOrder(c) ==
  /\ mcall[c].op = "cancelOrder" /\ mcall[c].pc = "find_order"
  /\ LET id == mcall[c].orderId
     IN  IF id \notin DOMAIN morders
           THEN mcall' = MEnd(c, "Order not found", 0)
           ELSE IF morders[id].status \in {"shipped", "delivered"}
             THEN mcall' = MEnd(c, "Cannot cancel shipped or delivered orders", 0)
             ELSE mcall' = [mcall EXCEPT
                    ![c].items = morders[id].items, ![c].idx = 1,
                    ![c].pc = IF morders[id].items = <<>> THEN "status" ELSE "find"]
  /\ UNCHANGED <<sql, reporting, mproducts, morders, mcalls>>

\* Product.findById of the item's product and the release of its quantity,
\* up to the save().
CancelFind(c) ==
  /\ mcall[c].op = "cancelOrder" /\ mcall[c].pc = "find"
  /\ LET item == mcall[c].items[mcall[c].idx]
     IN  IF item.productId \in DOMAIN mproducts
           THEN mcall' = [mcall EXCEPT
                  ![c].pc = "save",
                  ![c].productId = item.productId,
                  ![c].loaded = mproducts[item.productId],
                  ![c].doc = Release(mproducts[item.productId],
                                     item.quantity)]
           ELSE mcall' = [mcall EXCEPT
                  ![c].idx = @ + 1,
                  ![c].pc = IF mcall[c].idx = Len(mcall[c].items)
                              THEN "status" ELSE "find"]
  /\ UNCHANGED <<sql, reporting, mproducts, morders, mcalls>>

\* The product.save() of the release completes, or is rejected by the
\* validator of reserved.
CancelSave(c) ==
  /\ mcall[c].op = "cancelOrder" /\ mcall[c].pc = "save"
  /\ IF Valid(mcall[c].loaded, mcall[c].doc)
       THEN /\ mproducts' = SaveProduct(mcall[c].productId, mcall[c].loaded,
                                        mcall[c].doc)
            /\ mcall' = [mcall EXCEPT
                 ![c].idx = @ + 1,
                 ![c].pc = IF mcall[c].idx = Len(mcall[c].items)
                             THEN "status" ELSE "find"]
       ELSE /\ mcall' = MEnd(c, "Validation failed", 0)
            /\ UNCHANGED mproducts
  /\ UNCHANGED <<sql, reporting, morders, mcalls>>

\* order.updateStatus('cancelled', reason): the status is set and saved.
CancelStatus(c) ==
  /\ mcall[c].op = "cancelOrder" /\ mcall[c].pc = "status"
  /\ morders' = [morders EXCEPT ![mcall[c].orderId].status = "cancelled"]
  /\ mcall' = MEnd(c, "ok", mcall[c].orderId)
  /\ UNCHANGED <<sql, reporting, mproducts, mcalls>>

\* ProductService.updateInventory(productId, quantity) is called.
UpdateInventory(c, i, quantity) ==
  /\ MIdle(c)
  /\ mcalls' = mcalls + 1
  /\ mcall' = [mcall EXCEPT ![c] =
                 [NoMCall EXCEPT !.op = "updateInventory", !.pc = "find",
                                 !.productId = i, !.quantity = quantity,
                                 !.before = mproducts, !.last = mcall[c].last]]
  /\ UNCHANGED <<sql, reporting, mproducts, morders>>

\* Product.findById and the assignment of inventory.quantity.
UpdateFind(c) ==
  /\ mcall[c].op = "updateInventory" /\ mcall[c].pc = "find"
  /\ LET i == mcall[c].productId
     IN  IF i \notin DOMAIN mproducts
           THEN mcall' = MEnd(c, "Product not found", 0)
           ELSE mcall' = [mcall EXCEPT
                  ![c].pc = "save",
                  ![c].loaded = mproducts[i],
                  ![c].doc = [mproducts[i] EXCEPT !.quantity = mcall[c].quantity]]
  /\ UNCHANGED <<sql, reporting, mproducts, morders, mcalls>>

\* The save() of updateInventory completes.
UpdateSave(c) ==
  /\ mcall[c].op = "updateInventory" /\ mcall[c].pc = "save"
  /\ IF Valid(mcall[c].loaded, mcall[c].doc)
       THEN /\ mproducts' = SaveProduct(mcall[c].productId, mcall[c].loaded,
                                        mcall[c].doc)
            /\ mcall' = MEnd(c, "ok", 0)
       ELSE /\ mcall' = MEnd(c, "Validation failed", 0)
            /\ UNCHANGED mproducts
  /\ UNCHANGED <<sql, reporting, morders, mcalls>>

MStep(c) ==
  \/ CreateFind(c) \/ CreateSave(c) \/ CreateOrderSave(c)
  \/ CancelFindOrder(c) \/ CancelFind(c) \/ CancelSave(c) \/ CancelStatus(c)
  \/ UpdateFind(c) \/ UpdateSave(c)

MCall(c) ==
  \/ \E items \in ItemLists(MongoLines) : CreateOrder(c, items)
  \/ \E id \in 1..MaxCalls : CancelOrder(c, id)
  \/ \E q \in {-1, 2, 6} : UpdateInventory(c, "m1", q)

\* Clients call the services concurrently.
NextMongo == \E c \in MClients : MCall(c) \/ MStep(c)

SpecMongo == Init /\ [][NextMongo]_vars

\* One client calls the services, one call after the other.
NextMongoSerial == MCall("c1") \/ MStep("c1")

SpecMongoSerial == Init /\ [][NextMongoSerial]_vars

\* ----------------------------------------------- calculate_dynamic_price
RECURSIVE GCD(_, _)
GCD(a, b) == IF b = 0 THEN a ELSE GCD(b, a % b)

Abs(n) == IF n < 0 THEN 0 - n ELSE n

\* Exact NUMERIC arithmetic on rationals <<num, den>> in lowest terms.
Norm(num, den) ==
  LET g == GCD(Abs(num), den) IN <<num \div g, den \div g>>

Times(x, y) ==
  LET g1 == GCD(Abs(x[1]), y[2])
      g2 == GCD(Abs(y[1]), x[2])
  IN  <<(x[1] \div g1) * (y[1] \div g2), (x[2] \div g2) * (y[2] \div g1)>>

Minus(x, y) == Norm(x[1] * y[2] - y[1] * x[2], x[2] * y[2])

\* ROUND(x, 2), in hundredths.
Round2(x) == LET h == Times(x, <<100, 1>>) IN Round(h[1], h[2])

\* Dollars of a DECIMAL(10,2) column held in cents.
Dollars(cents) == Norm(cents, 100)

\* o.created_at >= CURRENT_DATE - INTERVAL 'n days'
Within(o, days) == o.created_at >= today.day - days

RECURSIVE SumTotalAmount(_)
SumTotalAmount(rows) ==
  IF rows = {} THEN 0
  ELSE LET r == CHOOSE x \in rows : TRUE
       IN  r.total_amount + SumTotalAmount(rows \ {r})

\* Lines 385-391: which inventory rule applies to the product row.
InventoryRule(v_product) ==
  IF v_product.inventory_quantity <= v_product.low_stock_threshold THEN "low"
  ELSE IF v_product.inventory_quantity > 100 THEN "over"
  ELSE "none"

InventoryFactor(rule) ==
  CASE rule = "low"  -> <<11, 10>>
    [] rule = "over" -> <<19, 20>>
    [] OTHER         -> One

InventoryLabel(rule) ==
  IF rule = "low" THEN "Low stock premium" ELSE "Overstock discount"

\* recent_sales: COUNT(*) of the order_items rows of the product on paid
\* orders of the last 7 days.
RecentSaleCount(i) ==
  Cardinality({oi \in order_items :
                 /\ oi.product_id = i
                 /\ \E o \in orders : /\ o.id = oi.order_id
                                      /\ Within(o, 7)
                                      /\ o.payment_status = "paid"})

DemandFactor(sale_count) ==
  IF sale_count > 10 THEN <<21, 20>>
  ELSE IF sale_count < 2 THEN <<9, 10>>
  ELSE One

DemandLabel(sale_count) ==
  IF sale_count > 10 THEN "High demand premium"
  ELSE IF sale_count < 2 THEN "Low demand discount"
  ELSE "Normal demand"

\* customer_stats and the loyalty CASE (amounts in cents).
LoyaltyFactor(u) ==
  LET paid == {o \in orders : o.user_id = u /\ o.payment_status = "paid"}
  IN  IF u = NULL THEN One
      ELSE IF SumTotalAmount(paid) > 100000 THEN <<9, 10>>
      ELSE IF SumTotalAmount(paid) > 50000 THEN <<19, 20>>
      ELSE IF Cardinality(paid) > 5 THEN <<97, 100>>
      ELSE One

SeasonalFactor(month) == IF month \in {11, 12} THEN <<21, 20>> ELSE One

\* jsonb_set(target, '{key}', value) raises "cannot set path in scalar" when
\* the target is not an object or array.
JsonbSetFails(target) == target.kind /= "object"

JsonbSet(target, key, value) ==
  JsonObject((key :> value) @@ target.obj)

\* Lines 416-446: the labels added to v_factors after the demand query.
FinalFactors(v_factors, loyalty, seasonal) ==
  LET f1 == JsonbSet(v_factors, "demand", v_factors.str)
      f2 == IF loyalty[1] < loyalty[2]
              THEN JsonbSet(f1, "loyalty", "Customer loyalty discount") ELSE f1
  IN  IF seasonal /= One
        THEN JsonbSet(f2, "seasonal", "Holiday season premium") ELSE f2

\* Lines 449-456: the returned row (prices in cents, percentage in 1/100).
PriceRow(base, inventory, demand, loyalty, seasonal, factors) ==
  LET f == Times(Times(inventory, demand), Times(loyalty, seasonal))
  IN  [base_price |-> base,
       dynamic_price |-> Round2(Times(Dollars(base), f)),
       discount_percentage |-> Round2(Times(Minus(One, f), <<100, 1>>)),
       pricing_factors |-> factors.obj]

\* Lines 380-414: the product row, the inventory rule with its label, and
\* the demand query, whose INTO list assigns the demand label to v_factors.
DynamicPriceFactors(i, u) ==
  /\ report.pc \in {"idle", "done"}
  /\ report' = [NoReport EXCEPT
       !.fn = "calculate_dynamic_price", !.pc = "demand",
       !.p_product_id = i, !.p_user_id = u,
       !.v_inventory_factor = InventoryFactor(InventoryRule(products[i])),
       !.v_demand_factor = DemandFactor(RecentSaleCount(i)),
       !.v_factors = JsonString(DemandLabel(RecentSaleCount(i)))]
  /\ UNCHANGED <<sql, mongo, reviews, today>>

\* Lines 416-456: the demand label is set into v_factors, then loyalty,
\* season, the final price and the returned row.
DynamicPriceReturn ==
  /\ report.fn = "calculate_dynamic_price" /\ report.pc = "demand"
  /\ LET loyalty  == LoyaltyFactor(report.p_user_id)
         seasonal == SeasonalFactor(today.month)
         base     == products[report.p_product_id].price
     IN  report' =
           IF JsonbSetFails(report.v_factors)
             THEN [report EXCEPT !.pc = "done", !.status = "error",
                                 !.error = "cannot set path in scalar"]
           ELSE IF base = 0
             THEN [report EXCEPT !.pc = "done", !.status = "error",
                                 !.error = "division by zero"]
           ELSE [report EXCEPT
                   !.pc = "done", !.status = "ok",
                   !.v_factors = FinalFactors(report.v_factors, loyalty, seasonal),
                   !.rows = <<PriceRow(base, report.v_inventory_factor,
                                       report.v_demand_factor, loyalty, seasonal,
                                       FinalFactors(report.v_factors, loyalty,
                                                    seasonal))>>]
  /\ UNCHANGED <<sql, mongo, reviews, today>>

\* A history of k orders of user u1, n lines of product p1 each.
SalesHistory(k, n, quantity, payment_status, age, total) ==
  /\ orders = {[id |-> o, user_id |-> "u1", payment_status |-> payment_status,
                created_at |-> today.day - age, total_amount |-> total] :
               o \in 1..k}
  /\ order_items = {[order_id |-> o, line |-> l, product_id |-> "p1",
                     quantity |-> quantity] : o \in 1..k, l \in 1..n}

InitPricing ==
  /\ \E price \in {10000, 1999}, stock \in {5, 50, 150} :
        products = [i \in {"p1"} |->
                      [price |-> price, inventory_quantity |-> stock,
                       low_stock_threshold |-> 10, is_active |-> TRUE]]
  /\ \E month \in {6, 12} : today = [day |-> 40, month |-> month]
  /\ \E k \in {0, 1, 6}, n \in {1, 2, 12}, quantity \in {1, 12},
        payment_status \in {"paid", "pending"}, age \in {0, 8},
        total \in {10000, 60000, 120000} :
        SalesHistory(k, n, quantity, payment_status, age, total)
  /\ product_variants = InitVariants
  /\ coupons = InitCoupons
  /\ inventory_transactions = <<>>
  /\ coupon_usages = {}
  /\ cart_items = [s \in Sessions |-> TRUE]
  /\ now = 0
  /\ calls = 0
  /\ pc = [s \in Sessions |-> "idle"]
  /\ req = [s \in Sessions |-> NoCall]
  /\ loc = [s \in Sessions |-> NoLocals]
  /\ tx = [s \in Sessions |-> NoWrites]
  /\ result = [s \in Sessions |-> NoResult]
  /\ MongoInit
  /\ reviews = {}
  /\ report = NoReport

NextPricing ==
  \/ \E u \in {NULL, "u1"} : DynamicPriceFactors("p1", u)
  \/ DynamicPriceReturn

SpecPricing == InitPricing /\ [][NextPricing]_vars

\* ---------------------------------------------- calculate_reorder_points
Plus(x, y) == Norm(x[1] * y[2] + y[1] * x[2], x[2] * y[2])

LessEq(x, y) == x[1] * y[2] <= y[1] * x[2]

Greatest(x, y) == IF LessEq(x, y) THEN y ELSE x

Whole(n) == <<n, 1>>

\* x::INTEGER: a NUMERIC is rounded to the nearest integer.
ToInteger(x) == Round(x[1], x[2])

\* SUM(oi.quantity) over a set of order_items rows.
RECURSIVE SumSold(_)
SumSold(rows) ==
  IF rows = {} THEN 0
  ELSE LET r == CHOOSE x \in rows : TRUE
       IN  r.quantity + SumSold(rows \ {r})

\* The order_items rows of product i on paid orders of the last 30 days.
SoldLines(i) ==
  {oi \in order_items :
     /\ oi.product_id = i
     /\ \E o \in orders : /\ o.id = oi.order_id
                          /\ o.payment_status = "paid"
                          /\ Within(o, 30)}

\* DATE(o.created_at) of the order of a line.
SaleDate(oi) == (CHOOSE o \in orders : o.id = oi.order_id).created_at

\* daily_sales: one row per day on which the product was sold.
SaleDates(i) == {SaleDate(oi) : oi \in SoldLines(i)}

\* COALESCE(AVG(daily_sales.quantity), 0): the mean of the daily sums over
\* the rows of daily_sales.
AvgDailySales(i) ==
  IF SaleDates(i) = {} THEN Whole(0)
  ELSE Norm(SumSold(SoldLines(i)), Cardinality(SaleDates(i)))

\* GREATEST(COALESCE(AVG(daily_sales.quantity) * 3, 5), 5)
SafetyStock(i) ==
  IF SaleDates(i) = {} THEN Whole(5)
  ELSE Greatest(Times(AvgDailySales(i), Whole(3)), Whole(5))

\* sd.avg_daily_sales * sd.lead_time_days + sd.safety_stock
ReorderLevel(i) == Plus(Times(AvgDailySales(i), Whole(7)), SafetyStock(i))

\* The urgency CASE, on the unrounded reorder level.
UrgencyRank(i) ==
  IF products[i].inventory_quantity <= 0 THEN 1
  ELSE IF LessEq(Whole(2 * products[i].inventory_quantity), ReorderLevel(i)) THEN 2
  ELSE IF LessEq(Whole(products[i].inventory_quantity), ReorderLevel(i)) THEN 3
  ELSE 4

UrgencyLevel(rank) ==
  CASE rank = 1 -> "CRITICAL - Out of Stock"
    [] rank = 2 -> "HIGH - Immediate Reorder"
    [] rank = 3 -> "MEDIUM - Reorder Soon"
    [] OTHER    -> "LOW - Monitor"

\* The row of the report for product i.
ReorderRow(i) ==
  [product_id |-> i,
   current_stock |-> products[i].inventory_quantity,
   avg_daily_sales |-> Round2(AvgDailySales(i)),
   lead_time_days |-> 7,
   safety_stock |-> ToInteger(SafetyStock(i)),
   reorder_point |-> ToInteger(ReorderLevel(i)),
   suggested_order_quantity |->
     IF ToInteger(Times(AvgDailySales(i), Whole(30))) >= 10
       THEN ToInteger(Times(AvgDailySales(i), Whole(30))) ELSE 10,
   urgency_level |-> UrgencyLevel(UrgencyRank(i))]

\* WHERE p.is_active = true AND p.track_inventory = true
Reported == {i \in DOMAIN products :
               products[i].is_active /\ products[i].track_inventory}

\* ORDER BY the urgency rank, then avg_daily_sales DESC; rows that tie come
\* in any order.
ReorderSorted(rows) ==
  \A a, b \in DOMAIN rows :
     a < b =>
        \/ UrgencyRank(rows[a].product_id) < UrgencyRank(rows[b].product_id)
        \/ /\ UrgencyRank(rows[a].product_id) = UrgencyRank(rows[b].product_id)
           /\ LessEq(AvgDailySales(rows[b].product_id),
                     AvgDailySales(rows[a].product_id))

\* calculate_reorder_points(): one query.
CalculateReorderPoints ==
  /\ report.pc = "idle"
  /\ \E rows \in [1..Cardinality(Reported) -> {ReorderRow(i) : i \in Reported}] :
        /\ \A i \in Reported : \E k \in DOMAIN rows : rows[k].product_id = i
        /\ ReorderSorted(rows)
        /\ report' = [NoReport EXCEPT !.fn = "calculate_reorder_points",
                                      !.pc = "done", !.status = "ok",
                                      !.rows = rows]
  /\ UNCHANGED <<sql, mongo, reviews, today>>

\* Orders of one line of p1 each that a sales history may hold: age in
\* days, quantity, payment status.
ReorderSales ==
  {[id |-> 1, age |-> 0, quantity |-> 30, payment_status |-> "paid"],
   [id |-> 2, age |-> 1, quantity |-> 1, payment_status |-> "paid"],
   [id |-> 3, age |-> 2, quantity |-> 2, payment_status |-> "paid"],
   [id |-> 4, age |-> 31, quantity |-> 7, payment_status |-> "paid"],
   [id |-> 5, age |-> 2, quantity |-> 2, payment_status |-> "pending"]}

InitReorder ==
  /\ \E stock \in {0, 5, 8, 16, 50}, active \in BOOLEAN, tracked \in BOOLEAN :
        products = [i \in {"p1", "p2"} |->
                      IF i = "p1"
                        THEN [price |-> 1999, inventory_quantity |-> stock,
                              low_stock_threshold |-> 10, is_active |-> TRUE,
                              track_inventory |-> TRUE]
                        ELSE [price |-> 700, inventory_quantity |-> 3,
                              low_stock_threshold |-> 10, is_active |-> active,
                              track_inventory |-> tracked]]
  /\ today = [day |-> 40, month |-> 6]
  /\ \E sales \in SUBSET ReorderSales :
        /\ orders = {[id |-> o.id, user_id |-> "u1",
                      payment_status |-> o.payment_status,
                      created_at |-> today.day - o.age,
                      total_amount |-> 1999 * o.quantity] : o \in sales}
        /\ order_items = {[order_id |-> o.id, line |-> 1, product_id |-> "p1",
                           quantity |-> o.quantity] : o \in sales}
  /\ product_variants = InitVariants
  /\ coupons = InitCoupons
  /\ inventory_transactions = <<>>
  /\ coupon_usages = {}
  /\ cart_items = [s \in Sessions |-> TRUE]
  /\ now = 0
  /\ calls = 0
  /\ pc = [s \in Sessions |-> "idle"]
  /\ req = [s \in Sessions |-> NoCall]
  /\ loc = [s \in Sessions |-> NoLocals]
  /\ tx = [s \in Sessions |-> NoWrites]
  /\ result = [s \in Sessions |-> NoResult]
  /\ MongoInit
  /\ reviews = {}
  /\ report = NoReport

NextReorder == CalculateReorderPoints

SpecReorder == InitReorder /\ [][NextReorder]_vars

\* ------------------------------------------- get_product_recommendations
\* The function RETURNS TABLE (product_id, product_name, price, avg_rating,
\* ...): these names are PL/pgSQL variables inside the body, and the query
\* uses product_id, price and avg_rating unqualified.  What that means is the
\* plpgsql.variable_conflict setting of the server: "error" (the default)
\* raises, "use_column" reads the columns, "use_variable" reads the
\* variables, which are NULL.
VariableConflict == {"error", "use_column", "use_variable"}

\* A nullable NUMERIC is a set with at most one rational.
Coalesce(x, y) == IF x = {} THEN y ELSE CHOOSE v \in x : TRUE

RECURSIVE SumRating(_)
SumRating(rows) ==
  IF rows = {} THEN 0
  ELSE LET r == CHOOSE x \in rows : TRUE
       IN  r.rating + SumRating(rows \ {r})

ApprovedReviews(i) == {r \in reviews : r.product_id = i /\ r.is_approved}

\* The subquery r, joined ON p.id = r.product_id: r.avg_rating of product i,
\* NULL without a joined row.  With "use_variable" the subquery groups by the
\* NULL variable and no row joins.
RatingOf(conf, i) ==
  IF conf = "use_variable" \/ ApprovedReviews(i) = {} THEN {}
  ELSE {Norm(SumRating(ApprovedReviews(i)), Cardinality(ApprovedReviews(i)))}

\* COALESCE(r.avg_rating, 0)
AvgRating(conf, i) == Coalesce(RatingOf(conf, i), Whole(0))

\* p.id != COALESCE(p_product_id, '00000000-...') AND p.is_active
Candidates(x) == {i \in DOMAIN products : products[i].is_active /\ i # x}

\* similar_products: base_score 3.0
SimilarProducts(x) ==
  IF x \notin DOMAIN products THEN {}
  ELSE {[id |-> i, base_score |-> {Whole(3)}, reason |-> "Similar product",
         key |-> <<"similar">>] :
          i \in {c \in Candidates(x) :
                    products[c].category_id = products[x].category_id}}

\* The products of the IN subquery: on an order with the viewed product.
BoughtWith(x) ==
  {oi2.product_id : oi2 \in
     {o2 \in order_items :
        /\ o2.product_id # x
        /\ \E oi1 \in order_items : /\ oi1.order_id = o2.order_id
                                    /\ oi1.product_id = x}}

\* The rows of products p LEFT JOIN r in the group of product i: the
\* subquery r has at most one row for a product.
GroupRows(conf, i) == {<<i, RatingOf(conf, i)>>}

\* frequently_bought_together: 4.0 + (COUNT(*) * 0.5), COUNT(*) over the
\* rows of the group.
FrequentlyBoughtTogether(conf, x) ==
  {[id |-> i,
    base_score |-> {Plus(Whole(4),
                         Times(Whole(Cardinality(GroupRows(conf, i))), <<1, 2>>))},
    reason |-> "Frequently bought together", key |-> <<"together">>] :
     i \in Candidates(x) \cap BoughtWith(x)}

\* user_preferences: one row for each category and brand the user bought
\* on paid orders, with the number of lines bought.
PurchasedLines(u) ==
  {oi \in order_items :
     \E o \in orders : /\ o.id = oi.order_id
                       /\ o.user_id = u
                       /\ o.payment_status = "paid"}

UserPreferences(u) ==
  {[category_id |-> products[oi.product_id].category_id,
    brand_id |-> products[oi.product_id].brand_id,
    purchase_count |->
      Cardinality({l \in PurchasedLines(u) :
         /\ products[l.product_id].category_id = products[oi.product_id].category_id
         /\ products[l.product_id].brand_id = products[oi.product_id].brand_id})] :
     oi \in PurchasedLines(u)}

\* The rows of user_preferences joined to product i.
PreferencesOf(u, i) ==
  {up \in UserPreferences(u) :
     \/ products[i].category_id = up.category_id
     \/ products[i].brand_id = up.brand_id}

\* user_based_recommendations: 2.0 + COALESCE(up.purchase_count * 0.3, 0),
\* one row for each joined row of user_preferences.
UserBasedRecommendations(u, x) ==
  IF u = NULL THEN {}
  ELSE UNION {
         IF PreferencesOf(u, i) = {}
           THEN {[id |-> i, base_score |-> {Whole(2)},
                  reason |-> "Based on your preferences", key |-> <<"user">>]}
           ELSE {[id |-> i,
                  base_score |-> {Plus(Whole(2),
                                       Times(Whole(up.purchase_count), <<3, 10>>))},
                  reason |-> "Based on your preferences",
                  key |-> <<"user", up.category_id, up.brand_id>>] :
                   up \in PreferencesOf(u, i)} :
         i \in Candidates(x)}

\* The subquery sales: COUNT(DISTINCT oi.order_id) of the paid orders of the
\* last 30 days with the product; no row for a product without one.
OrderCount(i) ==
  Cardinality({oi.order_id : oi \in
     {l \in order_items :
        /\ l.product_id = i
        /\ \E o \in orders : /\ o.id = l.order_id
                             /\ Within(o, 30)
                             /\ o.payment_status = "paid"}})

\* trending_products: 1.0 + (sales.order_count * 0.1), NULL where the LEFT
\* JOIN found no row of sales.
TrendingProducts(x) ==
  {[id |-> i,
    base_score |-> IF OrderCount(i) = 0 THEN {}
                   ELSE {Plus(Whole(1), Times(Whole(OrderCount(i)), <<1, 10>>))},
    reason |-> "Trending product", key |-> <<"trending">>] :
     i \in Candidates(x)}

\* all_recommendations: the UNION ALL of the four sources.
AllRecommendations(conf, u, x) ==
  SimilarProducts(x) \cup FrequentlyBoughtTogether(conf, x)
     \cup UserBasedRecommendations(u, x) \cup TrendingProducts(x)

\* SUM(base_score): NULL scores are skipped, and the sum of none is NULL.
RECURSIVE SumBaseScore(_)
SumBaseScore(rows) ==
  IF rows = {} THEN {}
  ELSE LET r == CHOOSE x \in rows : TRUE
           rest == SumBaseScore(rows \ {r})
       IN  IF r.base_score = {} THEN rest
           ELSE IF rest = {} THEN r.base_score
           ELSE {Plus(Coalesce(r.base_score, Whole(0)), Coalesce(rest, Whole(0)))}

\* scored_recommendations: one group for each product;
\* SUM(base_score) + (avg_rating * 0.5), where avg_rating is the NULL
\* variable with "use_variable".
FinalScore(conf, u, x, i) ==
  LET total == SumBaseScore({r \in AllRecommendations(conf, u, x) : r.id = i})
  IN  IF conf = "use_variable" \/ total = {} THEN {}
      ELSE {Plus(Coalesce(total, Whole(0)),
                 Times(AvgRating(conf, i), <<1, 2>>))}

\* The row returned for product i.
RecommendationRow(conf, u, x, i) ==
  [product_id |-> i,
   price |-> IF conf = "use_variable" THEN {} ELSE {products[i].price},
   avg_rating |-> IF conf = "use_variable" THEN {}
                  ELSE {Round2(AvgRating(conf, i))},
   recommendation_score |-> {Round2(f) : f \in FinalScore(conf, u, x, i)},
   recommendation_reason |->
     {r.reason : r \in {a \in AllRecommendations(conf, u, x) : a.id = i}}]

\* ORDER BY final_score DESC: NULL sorts first, ties in any order.
RanksBefore(conf, u, x, a, b) ==
  \/ FinalScore(conf, u, x, a) = {}
  \/ /\ FinalScore(conf, u, x, b) # {}
     /\ LessEq(Coalesce(FinalScore(conf, u, x, b), Whole(0)),
               Coalesce(FinalScore(conf, u, x, a), Whole(0)))

\* The orders of the first p_limit products that the query may return.
Rankings(conf, u, x, limit) ==
  LET ids == {r.id : r \in AllRecommendations(conf, u, x)}
      n   == Min(limit, Cardinality(ids))
  IN  {f \in [1..n -> ids] :
         /\ \A a, b \in 1..n : a < b => /\ f[a] # f[b]
                                        /\ RanksBefore(conf, u, x, f[a], f[b])
         /\ \A a \in 1..n :
               \A i \in ids \ {f[k] : k \in 1..n} :
                  RanksBefore(conf, u, x, f[a], i)}

\* get_product_recommendations(p_user_id, p_product_id, p_limit): one query.
GetProductRecommendations(u, x, limit) ==
  /\ report.pc = "idle"
  /\ \/ /\ report.variable_conflict = "error"
        /\ report' = [report EXCEPT
                        !.fn = "get_product_recommendations", !.pc = "done",
                        !.p_user_id = u, !.p_product_id = x, !.p_limit = limit,
                        !.status = "error",
                        !.error = "column reference \"product_id\" is ambiguous"]
     \/ /\ report.variable_conflict # "error"
        /\ \E f \in Rankings(report.variable_conflict, u, x, limit) :
              report' = [report EXCEPT
                           !.fn = "get_product_recommendations", !.pc = "done",
                           !.p_user_id = u, !.p_product_id = x,
                           !.p_limit = limit, !.status = "ok",
                           !.rows = [k \in DOMAIN f |->
                                       RecommendationRow(report.variable_conflict,
                                                         u, x, f[k])]]
  /\ UNCHANGED <<sql, mongo, reviews, today>>

\* The orders a history may hold: buyer, payment status, age in days and the
\* products of its lines.
RecsSales ==
  {[id |-> 1, user_id |-> "u1", payment_status |-> "paid", age |-> 0,
    bought |-> {"p1", "p2"}],
   [id |-> 2, user_id |-> "u2", payment_status |-> "paid", age |-> 5,
    bought |-> {"p1", "p2"}],
   [id |-> 3, user_id |-> "u2", payment_status |-> "pending", age |-> 40,
    bought |-> {"p1", "p2"}],
   [id |-> 4, user_id |-> "u1", payment_status |-> "paid", age |-> 2,
    bought |-> {"p3"}],
   [id |-> 5, user_id |-> "u2", payment_status |-> "paid", age |-> 45,
    bought |-> {"p2"}]}

RecsReviews ==
  {[id |-> 1, product_id |-> "p2", rating |-> 4, is_approved |-> TRUE],
   [id |-> 2, product_id |-> "p2", rating |-> 5, is_approved |-> TRUE],
   [id |-> 3, product_id |-> "p3", rating |-> 2, is_approved |-> FALSE]}

InitRecs ==
  /\ \E category \in {"c1", "c2"}, active \in BOOLEAN :
        products = [i \in {"p1", "p2", "p3"} |->
                      [price |-> 1999, inventory_quantity |-> 5,
                       low_stock_threshold |-> 10, track_inventory |-> TRUE,
                       is_active |-> IF i = "p3" THEN active ELSE TRUE,
                       category_id |-> IF i = "p2" THEN category ELSE "c1",
                       brand_id |-> IF i = "p1" THEN "b1" ELSE "b2"]]
  /\ today = [day |-> 50, month |-> 6]
  /\ \E sales \in SUBSET RecsSales :
        /\ orders = {[id |-> o.id, user_id |-> o.user_id,
                      payment_status |-> o.payment_status,
                      created_at |-> today.day - o.age,
                      total_amount |-> 1999 * Cardinality(o.bought)] : o \in sales}
        /\ order_items = UNION {{[order_id |-> o.id,
                                  line |-> IF i = "p1" THEN 1 ELSE 2,
                                  product_id |-> i, quantity |-> 1] :
                                   i \in o.bought} : o \in sales}
  /\ reviews \in SUBSET RecsReviews
  /\ \E conf \in VariableConflict :
        report = [NoReport EXCEPT !.variable_conflict = conf]
  /\ product_variants = InitVariants
  /\ coupons = InitCoupons
  /\ inventory_transactions = <<>>
  /\ coupon_usages = {}
  /\ cart_items = [s \in Sessions |-> TRUE]
  /\ now = 0
  /\ calls = 0
  /\ pc = [s \in Sessions |-> "idle"]
  /\ req = [s \in Sessions |-> NoCall]
  /\ loc = [s \in Sessions |-> NoLocals]
  /\ tx = [s \in Sessions |-> NoWrites]
  /\ result = [s \in Sessions |-> NoResult]
  /\ MongoInit

NextRecs ==
  \E u \in {NULL, "u1"}, x \in {NULL, "p1"}, limit \in {1, 5} :
     GetProductRecommendations(u, x, limit)

SpecRecs == InitRecs /\ [][NextRecs]_vars

\* ------------------------------------------------------------------ claims
StockRows == ProductIds \cup VariantIds

InitStock(row) ==
  IF row \in ProductIds THEN InitProducts[row].inventory_quantity
                        ELSE InitVariants[row].inventory_quantity

\* The units a request asks of one inventory row.
QtyOn(items, row) ==
  SumSeq([k \in DOMAIN items |->
            IF RowOf(items[k]) = row THEN items[k].quantity ELSE 0])

RECURSIVE SumQuantity(_)
SumQuantity(rows) ==
  IF rows = {} THEN 0
  ELSE LET r == CHOOSE x \in rows : TRUE
       IN  r.quantity + SumQuantity(rows \ {r})

RECURSIVE SumTotalPrice(_)
SumTotalPrice(rows) ==
  IF rows = {} THEN 0
  ELSE LET r == CHOOSE x \in rows : TRUE
       IN  r.total_price + SumTotalPrice(rows \ {r})

Range(f) == {f[k] : k \in DOMAIN f}

\* A step in which session p's call commits the whole order: the orders
\* row, one order_items row and one ledger row per requested line, and the
\* stock of every row lowered by what the lines ask of it.
CommitComplete(p) ==
  LET id    == loc[p].v_order_id
      items == req[p].p_items
      n     == Len(inventory_transactions)
  IN  /\ result'[p].order_id = id
      /\ \E o \in orders' \ orders : o.id = id /\ orders' = orders \cup {o}
      /\ Cardinality(order_items' \ order_items) = Len(items)
      /\ order_items \subseteq order_items'
      /\ \A k \in DOMAIN items :
            \E i \in order_items' \ order_items :
               /\ i.order_id = id /\ i.line = k
               /\ i.product_id = items[k].product_id
               /\ i.variant_id = items[k].variant_id
               /\ i.quantity = items[k].quantity
      /\ Len(inventory_transactions') = n + Len(items)
      /\ SubSeq(inventory_transactions', 1, n) = inventory_transactions
      /\ \A k \in DOMAIN items :
            /\ inventory_transactions'[n + k].reference_id = id
            /\ inventory_transactions'[n + k].product_id = items[k].product_id
            /\ inventory_transactions'[n + k].variant_id = items[k].variant_id
            /\ inventory_transactions'[n + k].quantity_change = 0 - items[k].quantity
      /\ \A r \in ProductIds :
            products'[r].inventory_quantity =
               products[r].inventory_quantity - QtyOn(items, r)
      /\ \A r \in VariantIds :
            product_variants'[r].inventory_quantity =
               product_variants[r].inventory_quantity - QtyOn(items, r)

Ends(p) == pc[p] /= "done" /\ pc'[p] = "done"

\* C1: process_order is all-or-nothing.  The tables change only in the step
\* in which a call returns success, and that step writes the order, one
\* order item and one ledger row per requested line and every line's stock
\* decrement together; a call that returns success = false or ends with an
\* error has left every table (stock, orders, items, ledger, coupon usages,
\* usage counts, cart) as it was.
C1_AllOrNothing ==
  [][ /\ (db' /= db) =>
           \E p \in Sessions : Ends(p) /\ result'[p].status = "ok"
      /\ \A p \in Sessions :
           Ends(p) =>
             IF result'[p].status = "ok" THEN CommitComplete(p) ELSE db' = db
    ]_vars

\* A call was rolled back on the CHECK constraint after it had written its
\* order, while another call's order is committed.
C1_Witness ==
  \E p, q \in Sessions :
     /\ result[p].status = "error" /\ result[p].message = "check_violation"
     /\ result[q].status = "ok" /\ orders /= {} /\ order_items /= {}

\* C2: zero oversell.  In every reachable state the stock of every product
\* and variant is >= 0, committed or not yet committed, and equals its
\* initial stock less the quantities of the committed order items on it, so
\* the committed orders never take more than the initial stock.
C2_NoOversell ==
  \A r \in StockRows :
     /\ CommittedStock(r) >= 0
     /\ \A p \in Sessions : StockSeen(p, r) >= 0
     /\ CommittedStock(r) =
          InitStock(r) - SumQuantity({i \in order_items : RowOf(i) = r})
     /\ SumQuantity({i \in order_items : RowOf(i) = r}) <= InitStock(r)

\* Two calls raced for the last units of p1: one committed, the other was
\* stopped by the CHECK constraint.
C2_Witness ==
  /\ products["p1"].inventory_quantity = 2
  /\ \E p \in Sessions : result[p].message = "check_violation"

\* C3: stock 5, two requests for 3 units of p1 each (here with a coupon code
\* and order numbers that do not collide): exactly one succeeds, the other
\* fails with the insufficient-stock result naming p1, and 2 units are left.
C3_OneWinsOtherShort ==
  ( /\ calls = 2
    /\ \A p \in Sessions :
          /\ pc[p] = "done"
          /\ req[p].p_items = <<[product_id |-> "p1", variant_id |-> NULL, quantity |-> 3]>>
          /\ req[p].p_coupon_code /= NULL
          /\ result[p].message /= "unique_violation" )
  => /\ products["p1"].inventory_quantity = 2
     /\ \E p, q \in Sessions :
           /\ p /= q
           /\ result[p].status = "ok"
           /\ result[q].status = "failed"
           /\ result[q].message = "Insufficient stock for"
           /\ result[q].names = <<"p1">>

\* C4: whenever process_order fails, its message enumerates every requested
\* line whose quantity exceeds the stock its product or variant has at that
\* moment.
C4_FailureListsEveryShortfall ==
  [][ \A p \in Sessions :
        (Ends(p) /\ result'[p].status = "failed") =>
           \A k \in DOMAIN req[p].p_items :
              req[p].p_items[k].quantity > CommittedStock(RowOf(req[p].p_items[k]))
                => /\ result'[p].message = "Insufficient stock for"
                   /\ RowOf(req[p].p_items[k]) \in Range(result'[p].names)
    ]_vars

\* C5: a coupon with a usage_limit never has usage_count above it, and an
\* order has at most one usage row per coupon.
C5_UsageWithinLimit ==
  /\ \A c \in DOMAIN coupons :
        \A l \in coupons[c].usage_limit : coupons[c].usage_count <= l
  /\ \A u, w \in coupon_usages :
        (u.coupon_id = w.coupon_id /\ u.order_id = w.order_id) => u = w

\* The balance of a ledger row's product/variant before the row.
BalanceBefore(k) ==
  LET r    == RowOf(inventory_transactions[k])
      prev == {j \in 1..(k - 1) : RowOf(inventory_transactions[j]) = r}
  IN  IF prev = {} THEN InitStock(r)
      ELSE inventory_transactions[CHOOSE j \in prev : \A i \in prev : i <= j].quantity_after

\* C6: along the ledger of every product/variant each row's quantity_after
\* is the previous balance plus the row's quantity_change.
C6_LedgerBalances ==
  \A k \in DOMAIN inventory_transactions :
     inventory_transactions[k].quantity_after =
        BalanceBefore(k) + inventory_transactions[k].quantity_change

\* C7: every committed order has total = subtotal + tax + shipping - discount.
C7_TotalIdentity ==
  \A o \in orders :
     o.total_amount = o.subtotal + o.tax_amount + o.shipping_amount - o.discount_amount

\* C8: for every committed order the order items' total_price sum to the
\* order's subtotal.
C8_ItemsSumToSubtotal ==
  \A o \in orders :
     SumTotalPrice({i \in order_items : i.order_id = o.id}) = o.subtotal

\* The coupon code is one the evaluator rejects, in the words of the claim.
Rejected(code, subtotal, t) ==
  \/ code \notin DOMAIN coupons
  \/ ~coupons[code].is_active
  \/ \E s \in coupons[code].starts_at : t < s
  \/ \E e \in coupons[code].expires_at : t > e
  \/ \E l \in coupons[code].usage_limit : coupons[code].usage_count >= l
  \/ subtotal < coupons[code].minimum_amount

PresentsRejected(p) ==
  /\ req[p].p_coupon_code /= NULL
  /\ Rejected(req[p].p_coupon_code, loc[p].v_subtotal, loc[p].ts)

\* C9: a call that presents a rejected coupon code (unknown, inactive,
\* outside its window, at its usage limit, or below the minimum amount) goes
\* on from the coupon block to create its order, with discount 0 and the
\* flat shipping fee, and the order it commits carries these amounts.
C9_RejectedCouponNoDiscount ==
  /\ [](\A p \in Sessions :
          (pc[p] \in {"insert_order", "select_item", "update_item", "finish"}
             /\ PresentsRejected(p)) =>
            /\ loc[p].v_discount_amount = 0
            /\ loc[p].v_shipping_amount = ShippingFlat
            /\ \A o \in tx[p].order :
                  o.discount_amount = 0 /\ o.shipping_amount = ShippingFlat)
  /\ [][ \A p \in Sessions :
           (PresentsRejected(p) /\ pc'[p] /= pc[p]) =>
              /\ (pc[p] = "coupon" /\ loc[p].v_insufficient_stock = <<>>)
                    => pc'[p] = "insert_order"
              /\ pc[p] = "finish" =>
                    /\ result'[p].status = "ok"
                    /\ \E o \in orders' \ orders :
                          /\ o.id = loc[p].v_order_id
                          /\ o.discount_amount = 0
                          /\ o.shipping_amount = ShippingFlat
       ]_vars

\* An order that presented the expired coupon is committed without discount.
C9_Witness ==
  /\ pc["s1"] = "done" /\ result["s1"].status = "ok"
  /\ req["s1"].p_coupon_code = "EXPIRING" /\ now = 1
  /\ \E o \in orders :
        /\ o.id = result["s1"].order_id
        /\ o.discount_amount = 0 /\ o.shipping_amount = ShippingFlat

\* The coupon the call presented was accepted.
Accepted(p) ==
  /\ loc[p].v_coupon \in DOMAIN coupons
  /\ coupons[loc[p].v_coupon].minimum_amount <= loc[p].v_subtotal

\* C10: an accepted percentage coupon discounts value% of the subtotal
\* (value 10, minimum 50, subtotal 100 gives 10.00); an accepted fixed_amount
\* coupon discounts min(value, subtotal), never more than the subtotal
\* (value 30, subtotal 20 gives 20.00).
C10_DiscountAmount ==
  \A p \in Sessions :
     (pc[p] = "insert_order" /\ Accepted(p)) =>
        LET c   == coupons[loc[p].v_coupon]
            sub == loc[p].v_subtotal
            d   == loc[p].v_discount_amount
        IN  /\ c.type = "percentage" => 100 * d = c.value * (sub * 100)
            /\ c.type = "fixed_amount" =>
                  /\ d = Min(c.value * 10000, sub * 100)
                  /\ d <= sub * 100
            /\ (c.type = "percentage" /\ c.value = 10 /\ sub = 10000)
                  => OrderRow(p).discount_amount = 1000
            /\ (c.type = "fixed_amount" /\ c.value = 30 /\ sub = 2000)
                  => OrderRow(p).discount_amount = 2000

\* The fixed 30.00 coupon was accepted on a subtotal of 20.00.
C10_Witness ==
  /\ pc["s1"] = "insert_order" /\ Accepted("s1")
  /\ coupons[loc["s1"].v_coupon].type = "fixed_amount"
  /\ coupons[loc["s1"].v_coupon].value = 30
  /\ loc["s1"].v_subtotal = 2000
  /\ loc["s1"].v_discount_amount = 200000

\* Two calls in flight have evaluated the same code against the same subtotal
\* at the same time.
SameEvaluation(p, q) ==
  /\ pc[p] \in {"insert_order", "select_item", "update_item", "finish"}
  /\ pc[q] \in {"insert_order", "select_item", "update_item", "finish"}
  /\ req[p].p_coupon_code = req[q].p_coupon_code
  /\ loc[p].v_subtotal = loc[q].v_subtotal
  /\ loc[p].ts = loc[q].ts

\* C11: coupon evaluation has no side effect.  usage_count and the coupon
\* usages change only in the step that commits an order, by one count and one
\* usage row of that order; a call that ends without success leaves both as
\* they are; the evaluation step changes no table; two evaluations of the
\* same code against the same subtotal and time give the same discount.
C11_EvaluationSideEffectFree ==
  /\ [][ /\ (coupons' /= coupons \/ coupon_usages' /= coupon_usages) =>
              \E p \in Sessions :
                 /\ Ends(p) /\ result'[p].status = "ok"
                 /\ \E o \in orders' \ orders : o.id = loc[p].v_order_id
                 /\ loc[p].v_coupon \in DOMAIN coupons
                 /\ coupons' = [coupons EXCEPT
                                  ![loc[p].v_coupon].usage_count = @ + 1]
                 /\ \E u \in coupon_usages' :
                       /\ coupon_usages' \ coupon_usages = {u}
                       /\ u.coupon_id = loc[p].v_coupon
                       /\ u.order_id = loc[p].v_order_id
         /\ \A p \in Sessions :
               (Ends(p) /\ result'[p].status /= "ok") =>
                  UNCHANGED <<coupons, coupon_usages>>
         /\ \A p \in Sessions :
               (pc[p] = "coupon" /\ pc'[p] /= "coupon") => UNCHANGED db
       ]_vars
  /\ [](\A p, q \in Sessions :
          SameEvaluation(p, q) =>
             /\ loc[p].v_discount_amount = loc[q].v_discount_amount
             /\ loc[p].v_shipping_amount = loc[q].v_shipping_amount)

\* A call that evaluated SAVE10 ended in an error after the other call's
\* order had committed its usage: one count, one usage row.
C11_Witness ==
  \E p \in Sessions :
     /\ pc[p] = "done" /\ result[p].status = "error"
     /\ result[p].message = "check_violation"
     /\ req[p].p_coupon_code = "SAVE10"
     /\ coupons["SAVE10"].usage_count = 1
     /\ Cardinality(coupon_usages) = 1

\* C12: every persisted Mongo product has available = quantity - reserved,
\* available >= 0 and reserved >= 0, after any sequence and interleaving of
\* createOrder, cancelOrder and updateInventory calls.
C12_AvailableIsQuantityMinusReserved ==
  \A i \in DOMAIN mproducts :
     /\ mproducts[i].available = mproducts[i].quantity - mproducts[i].reserved
     /\ mproducts[i].available >= 0
     /\ mproducts[i].reserved >= 0

\* Client c is about to complete the cancellation of the order that its
\* previous call created.
CancelsOwnOrder(c) ==
  /\ mcall[c].op = "cancelOrder" /\ mcall[c].pc = "status"
  /\ mcall[c].last.op = "createOrder"
  /\ mcall[c].last.orderId = mcall[c].orderId

\* C13: when a client creates an order and then cancels it, with no other
\* call in between, the completed cancellation leaves every product's
\* quantity, reserved and available as they were before the order was
\* created.
C13_CreateCancelRoundTrip ==
  [][ \A c \in MClients :
        (CancelsOwnOrder(c) /\ mcall'[c].pc = "idle" /\ mcall'[c].outcome = "ok")
           => mproducts' = mcall[c].last.before
    ]_vars

\* The cancellation of a two-product order has released both reservations.
C13_Witness ==
  /\ CancelsOwnOrder("c1")
  /\ Len(mcall["c1"].items) = 2
  /\ mcall["c1"].items[1].productId /= mcall["c1"].items[2].productId
  /\ morders[mcall["c1"].orderId].status = "pending"
  /\ mproducts = mcall["c1"].last.before

\* The call of calculate_dynamic_price has returned.
PriceReturned == report.fn = "calculate_dynamic_price" /\ report.pc = "done"

\* The example of the pricing rules: stock 5 with threshold 10, 12 trailing
\* sales, lifetime spend 1200.00, December, base price 100.00.
PricingExample ==
  /\ report.p_user_id = "u1"
  /\ products["p1"].price = 10000
  /\ products["p1"].inventory_quantity = 5
  /\ products["p1"].low_stock_threshold = 10
  /\ RecentSaleCount("p1") = 12
  /\ SumTotalAmount({o \in orders : o.payment_status = "paid"}) = 120000
  /\ today.month = 12

\* C14: calculate_dynamic_price returns dynamic_price = base_price x
\* inventory x demand x loyalty x seasonal factor, rounded to 2 decimals at
\* the final step only (109.37 for the example), and discount_percentage =
\* (base_price - dynamic_price) / base_price x 100.
C14_DynamicPriceIsProductOfFactors ==
  PriceReturned =>
    /\ report.status = "ok"
    /\ LET row  == report.rows[1]
           base == products[report.p_product_id].price
           f    == Times(Times(report.v_inventory_factor, report.v_demand_factor),
                         Times(LoyaltyFactor(report.p_user_id),
                               SeasonalFactor(today.month)))
       IN  /\ row.base_price = base
           /\ row.dynamic_price = Round2(Times(Dollars(base), f))
           /\ row.discount_percentage = Round2(Times(Minus(One, f), <<100, 1>>))
           /\ PricingExample => row.dynamic_price = 10937

\* Units of product i sold on paid orders of the trailing 7 days.
UnitsSold(i) ==
  SumQuantity({oi \in order_items :
                 /\ oi.product_id = i
                 /\ \E o \in orders : /\ o.id = oi.order_id
                                      /\ Within(o, 7)
                                      /\ o.payment_status = "paid"})

\* C15: the demand factor is 1.05 when more than 10 units were sold in the
\* trailing 7 days, 0.90 when fewer than 2, otherwise 1.00.
C15_DemandFactorByUnitsSold ==
  (report.fn = "calculate_dynamic_price" /\ report.pc \in {"demand", "done"}) =>
     report.v_demand_factor =
        IF UnitsSold(report.p_product_id) > 10 THEN <<21, 20>>
        ELSE IF UnitsSold(report.p_product_id) < 2 THEN <<9, 10>>
        ELSE One

\* C16: the factors hold the label of the inventory rule whenever it fired,
\* from the moment it is set to the returned output, which also holds the
\* demand label and the loyalty and seasonal labels that apply.
C16_FactorLabelsComplete ==
  LET rule == InventoryRule(products[report.p_product_id])
  IN  /\ (report.fn = "calculate_dynamic_price" /\ report.pc = "demand"
             /\ rule /= "none") =>
            /\ report.v_factors.kind = "object"
            /\ "inventory" \in DOMAIN report.v_factors.obj
      /\ PriceReturned =>
            /\ report.status = "ok"
            /\ LET out == report.rows[1].pricing_factors
               IN  /\ rule /= "none" => /\ "inventory" \in DOMAIN out
                                        /\ out["inventory"] = InventoryLabel(rule)
                   /\ "demand" \in DOMAIN out
                   /\ LoyaltyFactor(report.p_user_id) /= One
                         => "loyalty" \in DOMAIN out
                   /\ SeasonalFactor(today.month) /= One
                         => "seasonal" \in DOMAIN out

ReorderReturned == report.fn = "calculate_reorder_points" /\ report.pc = "done"

\* Units of product i sold on paid orders of the trailing 30 days.
UnitsSold30(i) ==
  SumQuantity({oi \in order_items :
                 /\ oi.product_id = i
                 /\ \E o \in orders : /\ o.id = oi.order_id
                                      /\ o.payment_status = "paid"
                                      /\ o.created_at >= today.day - 30})

\* C17: avg_daily_sales is the mean units sold per day over all 30 days of the
\* trailing window, days without sales counting as zero (30 units sold on one
\* day give 1.00).
C17_AvgDailySalesOverWindow ==
  ReorderReturned =>
     \A k \in DOMAIN report.rows :
        report.rows[k].avg_daily_sales =
           Round(UnitsSold30(report.rows[k].product_id) * 100, 30)

\* C18: in every row of the reorder report the urgency follows from the
\* row's own figures: CRITICAL if current_stock <= 0, else HIGH if
\* current_stock <= 0.5 x reorder_point, else MEDIUM if current_stock <=
\* reorder_point, else LOW.
C18_UrgencyFromReportedFigures ==
  ReorderReturned =>
     \A k \in DOMAIN report.rows :
        LET r == report.rows[k]
        IN  r.urgency_level =
              IF r.current_stock <= 0 THEN "CRITICAL - Out of Stock"
              ELSE IF 2 * r.current_stock <= r.reorder_point
                     THEN "HIGH - Immediate Reorder"
              ELSE IF r.current_stock <= r.reorder_point
                     THEN "MEDIUM - Reorder Soon"
              ELSE "LOW - Monitor"

RecsReturned == report.fn = "get_product_recommendations" /\ report.pc = "done"

\* The orders that contain both product x and product i.
OrdersWithBoth(x, i) ==
  {o \in orders : /\ \E oi \in order_items : oi.order_id = o.id /\ oi.product_id = x
                  /\ \E oi \in order_items : oi.order_id = o.id /\ oi.product_id = i}

\* The paid orders of the trailing 30 days that contain product i.
RecentPaidOrdersWith(i) ==
  {o \in orders : /\ o.payment_status = "paid"
                  /\ o.created_at >= today.day - 30
                  /\ \E oi \in order_items : oi.order_id = o.id /\ oi.product_id = i}

\* What the sources other than the one named give product i in the call
\* reported, plus avg_rating x 0.5.
OtherSources(source, i) ==
  Plus(Coalesce(SumBaseScore({r \in AllRecommendations("use_column",
                                       report.p_user_id, report.p_product_id) :
                                r.id = i /\ r.reason # source}), Whole(0)),
       Times(AvgRating("use_column", i), <<1, 2>>))

\* The score returned for product i, if the result has room for every
\* candidate.
ScoreReturned(i, score) ==
  \E k \in DOMAIN report.rows :
     /\ report.rows[k].product_id = i
     /\ report.rows[k].recommendation_score = {Round2(score)}

\* C19: a candidate bought together with the viewed product gets from the
\* co-purchase source 4.0 + 0.5 x (number of orders that contain both
\* products); it is returned with a score that holds exactly that amount
\* next to what the other sources and the rating give it.
C19_CoPurchaseScore ==
  (RecsReturned /\ report.p_product_id # NULL /\ report.p_limit = 5) =>
     \A i \in Candidates(report.p_product_id) \cap BoughtWith(report.p_product_id) :
        ScoreReturned(i,
           Plus(OtherSources("Frequently bought together", i),
                Plus(Whole(4),
                     Times(Whole(Cardinality(OrdersWithBoth(report.p_product_id, i))),
                           <<1, 2>>))))

\* C20: every active candidate gets from the trending source 1.0 + 0.1 x
\* (number of paid orders of the trailing 30 days that contain it), which is
\* exactly 1.0 for a product without such an order; it is returned with a
\* score that holds exactly that amount next to what the other sources and
\* the rating give it.
C20_TrendingScore ==
  (RecsReturned /\ report.p_limit = 5) =>
     \A i \in Candidates(report.p_product_id) :
        ScoreReturned(i,
           Plus(OtherSources("Trending product", i),
                Plus(Whole(1),
                     Times(Whole(Cardinality(RecentPaidOrdersWith(i))),
                           <<1, 10>>))))

\* The products that some source lists in the call reported.
Recommended ==
  {r.id : r \in AllRecommendations("use_column", report.p_user_id,
                                   report.p_product_id)}

\* C21: the recommendations returned hold each candidate at most once, as
\* many of them as the limit admits, each with a score that is the sum of
\* what the sources give it plus avg_rating x 0.5, in descending order of
\* that score.
C21_SummedSortedTruncated ==
  RecsReturned =>
     /\ Len(report.rows) = Min(report.p_limit, Cardinality(Recommended))
     /\ \A a, b \in DOMAIN report.rows :
           a # b => report.rows[a].product_id # report.rows[b].product_id
     /\ \A k \in DOMAIN report.rows :
           report.rows[k].recommendation_score =
              {Round2(Plus(Coalesce(SumBaseScore(
                              {r \in AllRecommendations("use_column",
                                        report.p_user_id, report.p_product_id) :
                                 r.id = report.rows[k].product_id}), Whole(0)),
                           Times(AvgRating("use_column",
                                           report.rows[k].product_id), <<1, 2>>)))}
     /\ \A a, b \in DOMAIN report.rows :
           a < b =>
              \A sa \in report.rows[a].recommendation_score,
                 sb \in report.rows[b].recommendation_score : sa >= sb

\* The step ends a createOrder call of client c with an error.
CreateFails(c) ==
  /\ mcall[c].op = "createOrder"
  /\ mcall'[c].pc = "idle"
  /\ mcall'[c].outcome # "ok"

\* C22: a createOrder call that fails (product not found, insufficient
\* inventory) leaves every product's quantity, reserved and available as
\* they were when it was called, the products of the items before the failing
\* one included, and saves no order.
C22_CreateOrderAllOrNothing ==
  [][\A c \in MClients :
        CreateFails(c) => /\ mproducts' = mcall[c].before
                          /\ morders' = morders]_vars

\* The quantity of product i on the items of an order.
RECURSIVE QuantityOf(_, _)
QuantityOf(items, i) ==
  IF items = <<>> THEN 0
  ELSE (IF Head(items).productId = i THEN Head(items).quantity ELSE 0)
         + QuantityOf(Tail(items), i)

\* The quantity of product i on the saved orders that are not cancelled.
RECURSIVE ReservedByOrders(_, _)
ReservedByOrders(os, i) ==
  IF os = <<>> THEN 0
  ELSE (IF Head(os).status # "cancelled" THEN QuantityOf(Head(os).items, i) ELSE 0)
         + ReservedByOrders(Tail(os), i)

\* Two calls were made, both createOrder, both succeeded, none is running.
TwoOrdersCreated ==
  /\ mcalls = 2
  /\ Len(morders) = 2
  /\ \A c \in MClients : mcall[c].pc = "idle"

\* C23: when two createOrder calls, however interleaved, have both
\* succeeded, every product's reserved count has grown by the quantities of
\* both orders and does not exceed its quantity.
C23_NoLostReservation ==
  TwoOrdersCreated =>
     \A i \in MProductIds :
        /\ mproducts[i].reserved = ReservedByOrders(morders, i)
        /\ mproducts[i].reserved <= mproducts[i].quantity

\* The step ends a cancelOrder call of client c on an order that is
\* already cancelled.
CancelsAgain(c) ==
  /\ mcall[c].op = "cancelOrder"
  /\ mcall'[c].pc = "idle"
  /\ mcall[c].orderId \in DOMAIN morders
  /\ morders[mcall[c].orderId].status = "cancelled"

\* C29: cancelOrder releases the reservation of an order at most once: a
\* call on an order that is already cancelled leaves every product's
\* reserved and available as they were when it was called.
C29_CancelReleasesOnce ==
  [][\A c \in MClients : CancelsAgain(c) => mproducts' = mcall[c].before]_vars

\* C25: in every row of the reorder report the returned figures satisfy
\* safety_stock = max(avg_daily_sales x 3, 5), reorder_point =
\* avg_daily_sales x 7 + safety_stock and suggested_order_quantity =
\* max(avg_daily_sales x 30, 10), each as the whole number its column holds,
\* and the rows are those of the active products that track inventory.
C25_ReorderFormulas ==
  ReorderReturned =>
     /\ \A k \in DOMAIN report.rows :
           LET r   == report.rows[k]
               avg == Norm(r.avg_daily_sales, 100)
           IN  /\ r.safety_stock =
                     ToInteger(Greatest(Times(avg, Whole(3)), Whole(5)))
               /\ r.reorder_point =
                     ToInteger(Plus(Times(avg, Whole(7)), Whole(r.safety_stock)))
               /\ r.suggested_order_quantity =
                     ToInteger(Greatest(Times(avg, Whole(30)), Whole(10)))
     /\ {report.rows[k].product_id : k \in DOMAIN report.rows} =
           {i \in DOMAIN products :
              products[i].is_active /\ products[i].track_inventory}

\* The units the lines without a variant ask of product i, and the units
\* the lines that name variant v ask of it.
UnitsOfProduct(items, i) ==
  SumSeq([k \in DOMAIN items |->
            IF items[k].product_id = i /\ items[k].variant_id = NULL
              THEN items[k].quantity ELSE 0])

UnitsOfVariant(items, v) ==
  SumSeq([k \in DOMAIN items |->
            IF items[k].variant_id = v THEN items[k].quantity ELSE 0])

\* C24: a line that names a variant lowers only that variant's counter, a
\* line without a variant only the product's.  The commit of an order lowers
\* every product's inventory_quantity by the units of its lines without a
\* variant and every variant's by the units of the lines that name it, and
\* no other step changes a counter.
C24_VariantOrProductNeverBoth ==
  [][ /\ \A p \in Sessions :
           (Ends(p) /\ result'[p].status = "ok") =>
              /\ \A i \in ProductIds :
                    products'[i].inventory_quantity =
                       products[i].inventory_quantity
                         - UnitsOfProduct(req[p].p_items, i)
              /\ \A v \in VariantIds :
                    product_variants'[v].inventory_quantity =
                       product_variants[v].inventory_quantity
                         - UnitsOfVariant(req[p].p_items, v)
      /\ (\A p \in Sessions : ~(Ends(p) /\ result'[p].status = "ok")) =>
           /\ \A i \in ProductIds :
                 products'[i].inventory_quantity = products[i].inventory_quantity
           /\ \A v \in VariantIds :
                 product_variants'[v].inventory_quantity =
                    product_variants[v].inventory_quantity
    ]_vars

\* An order with a line of variant v1 of p1 is committed: v1 is down to 3,
\* p1 still has its 5 units.
C24_Witness ==
  /\ \E oi \in order_items : oi.variant_id = "v1" /\ oi.product_id = "p1"
  /\ product_variants["v1"].inventory_quantity = 3
  /\ products["p1"].inventory_quantity = 5

\* The lines of the request of session p ask, together, for more units of
\* some product or variant than it has in stock.
AsksMoreThanStock(p) ==
  \E r \in StockRows : QtyOn(req[p].p_items, r) > CommittedStock(r)

\* C26: a request whose lines for one product (or one variant) together
\* exceed its stock, each of them within stock or not, is rejected with the
\* insufficient-stock result and changes nothing.
C26_DuplicateLinesRejected ==
  [][\A p \in Sessions :
        (/\ Ends(p)
         /\ AsksMoreThanStock(p)
         /\ result'[p].message \notin {"Product not found",
                                       "Product variant not found"}) =>
           /\ result'[p].status = "failed"
           /\ result'[p].message = "Insufficient stock for"
           /\ db' = db]_vars

\* The coupon the call of session p presented was applied to its order: a
\* usable coupon was found and the subtotal reaches its minimum amount.
CouponApplied(p) ==
  /\ loc[p].v_coupon \notin {NULL, Unassigned}
  /\ coupons[loc[p].v_coupon].minimum_amount <= loc[p].v_subtotal

\* C27: a commit counts the usage of a coupon, and records a coupon_usages
\* row, only when the coupon was applied to the order; an order whose
\* subtotal is below the coupon's minimum amount leaves usage_count and
\* coupon_usages as they were.
C27_UsageOnlyWhenApplied ==
  [][\A p \in Sessions :
        (Ends(p) /\ result'[p].status = "ok" /\ ~CouponApplied(p)) =>
           /\ coupons' = coupons
           /\ coupon_usages' = coupon_usages]_vars

\* C28: every committed order has 0 <= discount_amount <= subtotal, and so
\* tax_amount >= 0 and total_amount >= shipping_amount, whatever coupon the
\* schema admits was presented (a percentage above 100 included).
C28_DiscountWithinSubtotal ==
  \A o \in orders :
     /\ 0 <= o.discount_amount
     /\ o.discount_amount <= o.subtotal
     /\ o.tax_amount >= 0
     /\ o.total_amount >= o.shipping_amount

\* The request of session p can be satisfied: it presents a coupon code,
\* its lines name products and variants on sale, and together they ask for
\* no more than is in stock.
Satisfiable(p) ==
  /\ req[p].p_coupon_code # NULL
  /\ \A k \in DOMAIN req[p].p_items :
        LET item == req[p].p_items[k]
        IN  /\ products[item.product_id].is_active
            /\ item.variant_id # NULL =>
                  /\ product_variants[item.variant_id].is_active
                  /\ product_variants[item.variant_id].product_id = item.product_id
  /\ ~AsksMoreThanStock(p)

\* C30: committed orders have distinct order numbers, and a request that
\* can be satisfied never fails over its order number, a request in the
\* same clock second as another order included.
C30_OrderNumbersNeverCollide ==
  [][ /\ \A p \in Sessions :
           (Ends(p) /\ Satisfiable(p)) =>
              result'[p].message # "unique_violation"
      /\ \A o1, o2 \in orders' :
           o1.id # o2.id => o1.order_number # o2.order_number
    ]_vars

====
